---------------------------- MODULE Spec2Model ----------------------------
(***************************************************************************)
(* Object storage core of Tut: buckets and files in a relational metadata  *)
(* store, file contents on disk, reached through the native JSON handlers  *)
(* (api/bucket.go, api/file.go) and the S3 handlers (api/s3.go).           *)
(*                                                                         *)
(* Every request runs in a slot.  A handler that writes is split at its    *)
(* database statements and file system calls, so that two requests         *)
(* interleave as two goroutines of the HTTP server do.  Consecutive        *)
(* database reads of one handler are one step: no other handler's write    *)
(* placed between them yields an outcome that placing it after them does   *)
(* not.  A handler that only reads is one step.                            *)
(***************************************************************************)
EXTENDS Integers, Sequences, FiniteSets, TLC

VARIABLES
    buckets,    \* rows of table buckets
    files,      \* rows of table files
    disk,       \* file path -> bytes, for every regular file that exists
    dirs,       \* directories that exist
    uniqueKey,  \* whether the deployed schema has UNIQUE(bucket_id, name) on files
    nextBucket, \* next AUTOINCREMENT id of buckets
    nextFile,   \* next AUTOINCREMENT id of files
    now,        \* the database/wall clock, one tick per row written
    req,        \* slot -> the request it is running and that handler's locals
    last,       \* the response most recently sent
    ops,        \* requests started that write
    faults      \* I/O and database failures injected so far

vars == <<buckets, files, disk, dirs, uniqueKey, nextBucket, nextFile, now,
          req, last, ops, faults>>

---------------------------------------------------------------------------
(* Bounds *)

NumSlots == 2
MaxOps == 3
MaxBuckets == 1
MaxFaults == 1
MaxAccessBuckets == 2
MaxAccessOps == 2
MaxKeyOps == 3
MaxCreateBuckets == 3
MaxLifeOps == 3
MaxListOps == 3
MaxListBound == 2
MaxObjectOps == 3
MaxPageBuckets == 2
MaxPageOps == 2
MaxRecordBuckets == 2
MaxRecordOps == 1
MaxModifiedOps == 2
MaxAuthOps == 1

Slots == 1..NumSlots
Users == {1, 2}
BucketNames == {"x"}
BucketIDs == 1..MaxBuckets

\* An object key is the sequence of its "/"-separated segments.
Keys == { <<"a">>, <<".", "a">>, <<"d", "a">>, <<"..", "..", "a">> }

\* Request bodies: the bytes and the Content-Type header sent with them.
Uploads == { [data |-> <<1>>, ctype |-> ""],
             [data |-> <<2, 3>>, ctype |-> "text/plain"] }

---------------------------------------------------------------------------
(* HTTP statuses *)

StatusOK == 200
StatusCreated == 201
StatusNoContent == 204
StatusBadRequest == 400
StatusUnauthorized == 401
StatusForbidden == 403
StatusNotFound == 404
StatusConflict == 409
StatusInternalServerError == 500

---------------------------------------------------------------------------
(* Paths *)

\* getStoragePath: the configured base, "./storage" by default.
getStoragePath == <<"storage">>

\* filepath.Clean on a relative path: "" and "." segments are dropped, ".."
\* removes the segment before it, and is kept where there is none to remove.
RECURSIVE CleanFrom(_, _)
CleanFrom(acc, rest) ==
    IF rest = <<>> THEN acc
    ELSE LET s == Head(rest)
             t == Tail(rest)
         IN  IF s = "" \/ s = "." THEN CleanFrom(acc, t)
             ELSE IF s = ".."
                  THEN IF acc # <<>> /\ acc[Len(acc)] # ".."
                       THEN CleanFrom(SubSeq(acc, 1, Len(acc) - 1), t)
                       ELSE CleanFrom(Append(acc, s), t)
                  ELSE CleanFrom(Append(acc, s), t)

Clean(p) == CleanFrom(<<>>, p)

\* filepath.Join: the elements joined by "/" and cleaned.
Join(a, b) == Clean(a \o b)

\* storageDir of UploadFile and S3PutObject: <base>/<user id>/<bucket id>
StorageDir(userID, bucketID) ==
    Join(getStoragePath, <<ToString(userID), ToString(bucketID)>>)

\* filePath of UploadFile and S3PutObject
FilePath(userID, bucketID, key) == Join(StorageDir(userID, bucketID), key)

Parent(p) == SubSeq(p, 1, Len(p) - 1)

IsPrefix(a, b) == Len(a) <= Len(b) /\ SubSeq(b, 1, Len(a)) = a

\* os.MkdirAll: the directory and every missing ancestor.
MkdirAll(d) == { SubSeq(d, 1, n) : n \in 1..Len(d) }

\* header.Filename of a multipart part: mime/multipart reduces the client's
\* file name to its last path element (filepath.Base).
FormFileName(key) ==
    LET c == Clean(key)
    IN  IF c = <<>> THEN <<".">> ELSE <<c[Len(c)]>>

---------------------------------------------------------------------------
(* Content *)

\* fmt.Sprintf("%x", md5.Sum(bytes)): the digest is a function of the bytes
\* alone, and distinct bodies of the model have distinct digests.
Md5Hex(bytes) == <<"md5">> \o bytes

\* fmt.Sprintf(`"%s"`, etag): the S3 surface quotes the digest.
Quoted(etag) == <<"q">> \o etag

\* contentType of a put: the header, or application/octet-stream without one.
ContentTypeOf(ctype) == IF ctype = "" THEN "application/octet-stream" ELSE ctype

\* A copy that writes nothing into the file.
WriteNothing(old, bytes) == old

\* A write of `bytes` at offset 0 through a descriptor onto a file that holds
\* `old`: the bytes replace the head of the file and leave what lies beyond.
WriteAt0(old, bytes) ==
    IF Len(old) > Len(bytes)
    THEN bytes \o SubSeq(old, Len(bytes) + 1, Len(old))
    ELSE bytes


---------------------------------------------------------------------------
(* Rows, requests, responses *)

\* db.Bucket (Description carries no behaviour and is left out)
BucketRow(id, name, userID, isPublic, at) ==
    [id |-> id, name |-> name, userID |-> userID, isPublic |-> isPublic,
     createdAt |-> at]

\* db.File
FileRow(id, bucketID, name, path, ctype, size, etag, userID, at) ==
    [id |-> id, bucketID |-> bucketID, name |-> name, path |-> path,
     ctype |-> ctype, size |-> size, etag |-> etag, userID |-> userID,
     createdAt |-> at, updatedAt |-> at]

\* A slot that runs no request.  solo is bookkeeping: whether no other
\* writing request has run while this one does.
IdleReq ==
    [pc |-> "idle", op |-> "none", user |-> 0, bucketID |-> 0, bname |-> "",
     isPublic |-> FALSE, key |-> <<>>, data |-> <<>>, ctype |-> "",
     path |-> <<>>, existingID |-> 0, fileID |-> 0, fdLive |-> FALSE,
     solo |-> FALSE]

\* What a handler writes to its http.ResponseWriter.
Resp(op, status, id, size, etag, body) ==
    [op |-> op, status |-> status, id |-> id, size |-> size, etag |-> etag,
     body |-> body]

Err(op, status) == Resp(op, status, 0, 0, <<>>, <<>>)

NoResp == Err("none", 0)

---------------------------------------------------------------------------
(* Repositories *)

\* BucketRepository.GetByID: the rows with that id (none: the nil sentinel)
BucketGetByID(id) == { b \in buckets : b.id = id }

\* A lookup of buckets by name alone, whoever owns them.
BucketGetByAnyOwner(name, userID) == { b \in buckets : b.name = name }

\* BucketRepository.GetByName: WHERE name = ? AND user_id = ?
BucketGetByName(name, userID) ==
    { b \in buckets : b.name = name /\ b.userID = userID }

\* FileRepository.GetByID
FileGetByID(id) == { f \in files : f.id = id }

\* The file of an id, whatever bucket the request names.
FileOfAnyBucket(id, bucketID) == FileGetByID(id)

\* GetFile, DownloadFile and DeleteFile: the file of GetByID counts only
\* when file.BucketID is the bucket id of the URL.
FileOfBucket(id, bucketID) == { f \in FileGetByID(id) : f.bucketID = bucketID }

\* FileRepository.GetByName: WHERE bucket_id = ? AND name = ?
FileGetByName(bucketID, name) ==
    { f \in files : f.bucketID = bucketID /\ f.name = name }

\* A count that finds every bucket empty.
NoFileCount(bucketID) == 0

\* FileRepository.Count
FileCount(bucketID) == Cardinality({ f \in files : f.bucketID = bucketID })

\* The row id a lookup hands to the handler, 0 for nil.  QueryRow scans the
\* first row the engine returns: any one of them when several match.
RowIDs(rows) == IF rows = {} THEN {0} ELSE { f.id : f \in rows }

\* FileRepository.Create: INSERT of a new row.  The schema, when it carries
\* the unique index on (bucket_id, name), refuses a second row of that key.
FileCreateConflict(bucketID, name) ==
    uniqueKey /\ FileGetByName(bucketID, name) # {}

FileCreate(bucketID, name, path, ctype, size, etag, userID) ==
    files \cup { FileRow(nextFile, bucketID, name, path, ctype, size, etag,
                         userID, now) }

\* FileRepository.Update: name, path, content_type, size, etag, updated_at
\* of the row WHERE id = ?; no row of that id is no error.
FileUpdate(id, name, path, ctype, size, etag) ==
    { IF f.id = id
      THEN [f EXCEPT !.name = name, !.path = path, !.ctype = ctype,
                     !.size = size, !.etag = etag, !.updatedAt = now]
      ELSE f : f \in files }

\* A delete that removes no row.
FileDeleteNone(id) == files

\* FileRepository.Delete
FileDelete(id) == { f \in files : f.id # id }

---------------------------------------------------------------------------
(* File system *)

\* service.FileExists
FileExists(p) == p \in DOMAIN disk

\* os.Create succeeds when the parent directory exists and the path is no
\* directory; the file is created, or truncated when it exists.
CanCreate(p, ds) == p # <<>> /\ Parent(p) \in ds /\ p \notin ds

Truncated(p) == [q \in DOMAIN disk \cup {p} |-> IF q = p THEN <<>> ELSE disk[q]]

\* An os.Remove that leaves the file where it is.
NotRemoved(p) == disk

\* os.Remove of a regular file; a missing file is an error the callers drop.
Removed(p) == [q \in DOMAIN disk \ {p} |-> disk[q]]

\* After os.Remove(p), a descriptor another request holds open on p writes
\* to the unlinked file, not to what is (or will be) at path p.
Unlinked(rq, p) ==
    [s \in Slots |-> IF rq[s].pc = "copy" /\ rq[s].path = p
                     THEN [rq[s] EXCEPT !.fdLive = FALSE]
                     ELSE rq[s]]

---------------------------------------------------------------------------
(* Starting and finishing a request *)

Idle(r) == req[r].pc = "idle"

Alone(r) == \A s \in Slots \ {r} : Idle(s)

\* Slot r takes up request rq; the requests in flight are no longer alone.
Started(r, rq) ==
    [s \in Slots |-> IF s = r THEN [rq EXCEPT !.solo = Alone(r)]
                     ELSE IF Idle(s) THEN req[s]
                     ELSE [req[s] EXCEPT !.solo = FALSE]]

Finished(rq, r) == [rq EXCEPT ![r] = IdleReq]

Fault(f) == /\ f => faults < MaxFaults
            /\ faults' = IF f THEN faults + 1 ELSE faults

---------------------------------------------------------------------------
(* api/bucket.go *)

\* CreateBucket up to its lookup: is there a bucket of this name and owner?
CreateBucketStart(r, u, name, isPublic) ==
    /\ Idle(r)
    /\ \E f \in BOOLEAN :
         /\ Fault(f)
         /\ IF f
            THEN /\ last' = Err("CreateBucket", StatusInternalServerError)
                 /\ req' = req
            ELSE IF BucketGetByName(name, u) # {}
            THEN /\ last' = Err("CreateBucket", StatusConflict)
                 /\ req' = req
            ELSE /\ last' = last
                 /\ req' = Started(r, [IdleReq EXCEPT !.pc = "insertBucket",
                                          !.op = "CreateBucket", !.user = u,
                                          !.bname = name, !.isPublic = isPublic])
    /\ UNCHANGED <<buckets, files, disk, dirs, uniqueKey, nextBucket, nextFile,
                   now, ops>>

\* BucketRepository.Create: the unique index on (user_id, name), where the
\* schema has it, refuses a second bucket of that owner and name.
BucketCreateConflict(name, userID) ==
    uniqueKey /\ BucketGetByName(name, userID) # {}

\* CreateBucket from bucketRepo.Create to the response.
CreateBucketInsert(r) ==
    /\ req[r].pc = "insertBucket"
    /\ \E f \in BOOLEAN :
         /\ Fault(f)
         /\ IF f \/ BucketCreateConflict(req[r].bname, req[r].user)
            THEN /\ last' = Err("CreateBucket", StatusInternalServerError)
                 /\ UNCHANGED <<buckets, nextBucket, now>>
            ELSE /\ buckets' = buckets \cup
                       { BucketRow(nextBucket, req[r].bname, req[r].user,
                                   req[r].isPublic, now) }
                 /\ nextBucket' = nextBucket + 1
                 /\ now' = now + 1
                 /\ last' = Resp("CreateBucket", StatusCreated, nextBucket, 0,
                                 <<>>, <<>>)
    /\ req' = Finished(req, r)
    /\ UNCHANGED <<files, disk, dirs, uniqueKey, nextFile, ops>>

\* The decision of a handler that lets in the owner alone, whatever the
\* bucket's visibility.
OwnerOnlyAccess(u, rows) ==
    IF rows = {} THEN StatusNotFound
    ELSE LET bucket == CHOOSE b \in rows : TRUE
         IN  IF bucket.userID # u THEN StatusForbidden ELSE 0

\* The decision of a handler that lets in the owner and, when the bucket is
\* public, everyone.
VisibilityAccess(u, rows) ==
    IF rows = {} THEN StatusNotFound
    ELSE LET bucket == CHOOSE b \in rows : TRUE
         IN  IF bucket.userID # u /\ ~bucket.isPublic THEN StatusForbidden
             ELSE 0

\* The access decision GetBucket, ListFiles, GetFile, DownloadFile and
\* UploadFile make on the bucket they looked up by id: 0 when access is
\* granted, the error status otherwise.
NativeAccess(u, rows) ==
    IF rows = {} THEN StatusNotFound
    ELSE LET bucket == CHOOSE b \in rows : TRUE
         IN  IF bucket.userID # u /\ ~bucket.isPublic THEN StatusForbidden
             ELSE 0

\* The decision DeleteFile and DeleteBucket make: only the owner.
NativeOwnerAccess(u, rows) ==
    IF rows = {} THEN StatusNotFound
    ELSE LET bucket == CHOOSE b \in rows : TRUE
         IN  IF bucket.userID # u THEN StatusForbidden ELSE 0

\* GetBucket's response; dbFails: bucketRepo.GetByID returns an error.
GetBucketResp(u, id, dbFails) ==
    IF dbFails THEN Err("GetBucket", StatusInternalServerError)
    ELSE IF NativeAccess(u, BucketGetByID(id)) # 0
    THEN Err("GetBucket", NativeAccess(u, BucketGetByID(id)))
    ELSE Resp("GetBucket", StatusOK, id, 0, <<>>, <<>>)

GetBucket(u, id) ==
    /\ \E f \in BOOLEAN : Fault(f) /\ last' = GetBucketResp(u, id, f)
    /\ UNCHANGED <<buckets, files, disk, dirs, uniqueKey, nextBucket, nextFile,
                   now, req, ops>>

---------------------------------------------------------------------------
(* Puts: api/file.go UploadFile and api/s3.go S3PutObject *)

\* The bucket S3 handlers work on: bucketRepo.GetByName(bucketName, user.ID)
\* and the check on the row found; status 0 when the request may go on.
S3Access(u, name) ==
    LET rows == BucketGetByName(name, u)
    IN  IF rows = {} THEN { [status |-> StatusNotFound, id |-> 0] }
        ELSE { [status |-> IF b.userID # u /\ ~b.isPublic
                           THEN StatusForbidden ELSE 0,
                id |-> b.id] : b \in rows }

\* The same for S3DeleteObject: only the owner.
S3OwnerAccess(u, name) ==
    LET rows == BucketGetByName(name, u)
    IN  IF rows = {} THEN { [status |-> StatusNotFound, id |-> 0] }
        ELSE { [status |-> IF b.userID # u THEN StatusForbidden ELSE 0,
                id |-> b.id] : b \in rows }

\* UploadFile up to and including fileRepo.GetByName.
UploadFileStart(r, u, b, fname, up) ==
    /\ Idle(r)
    /\ \E f \in BOOLEAN, ex \in RowIDs(FileGetByName(b, fname)) :
         /\ Fault(f)
         /\ IF f
            THEN /\ last' = Err("UploadFile", StatusInternalServerError)
                 /\ UNCHANGED <<req, ops>>
            ELSE IF NativeAccess(u, BucketGetByID(b)) # 0
            THEN /\ last' = Err("UploadFile", NativeAccess(u, BucketGetByID(b)))
                 /\ UNCHANGED <<req, ops>>
            ELSE IF fname = <<>>
            THEN /\ last' = Err("UploadFile", StatusBadRequest)
                 /\ UNCHANGED <<req, ops>>
            ELSE /\ last' = last
                 /\ ops' = ops + 1
                 /\ req' = Started(r, [IdleReq EXCEPT !.pc = "create",
                                          !.op = "UploadFile", !.user = u,
                                          !.bucketID = b, !.key = fname,
                                          !.data = up.data, !.ctype = up.ctype,
                                          !.path = FilePath(u, b, fname),
                                          !.existingID = ex])
    /\ UNCHANGED <<buckets, files, disk, dirs, uniqueKey, nextBucket, nextFile,
                   now>>

\* S3PutObject up to the check of the bucket.
S3PutObjectStart(r, u, name, key, up) ==
    /\ Idle(r)
    /\ \E f \in BOOLEAN, a \in S3Access(u, name) :
         /\ Fault(f)
         /\ IF f
            THEN /\ last' = Err("S3PutObject", StatusInternalServerError)
                 /\ UNCHANGED <<req, ops>>
            ELSE IF a.status # 0
            THEN /\ last' = Err("S3PutObject", a.status)
                 /\ UNCHANGED <<req, ops>>
            ELSE /\ last' = last
                 /\ ops' = ops + 1
                 /\ req' = Started(r, [IdleReq EXCEPT !.pc = "create",
                                          !.op = "S3PutObject", !.user = u,
                                          !.bucketID = a.id, !.bname = name,
                                          !.key = key,
                                          !.data = up.data, !.ctype = up.ctype,
                                          !.path = FilePath(u, a.id, key)])
    /\ UNCHANGED <<buckets, files, disk, dirs, uniqueKey, nextBucket, nextFile,
                   now>>

\* service.EnsureDir(storageDir) and os.Create(filePath), of either put.
PutCreate(r) ==
    /\ req[r].pc = "create"
    /\ LET rq == req[r]
           made == dirs \cup MkdirAll(StorageDir(rq.user, rq.bucketID))
       IN  \E f \in BOOLEAN :
             /\ Fault(f)
             /\ IF f
                THEN /\ last' = Err(rq.op, StatusInternalServerError)
                     /\ req' = Finished(req, r)
                     /\ UNCHANGED <<disk, dirs>>
                ELSE IF ~CanCreate(rq.path, made)
                THEN /\ last' = Err(rq.op, StatusInternalServerError)
                     /\ req' = Finished(req, r)
                     /\ dirs' = made
                     /\ disk' = disk
                ELSE /\ last' = last
                     /\ dirs' = made
                     /\ disk' = Truncated(rq.path)
                     /\ req' = [req EXCEPT ![r].pc = "copy", ![r].fdLive = TRUE]
    /\ UNCHANGED <<buckets, files, uniqueKey, nextBucket, nextFile, now, ops>>

\* io.Copy into the file and the hash; on an error os.Remove(filePath).
PutCopy(r) ==
    /\ req[r].pc = "copy"
    /\ LET rq == req[r]
       IN  \E f \in BOOLEAN :
             /\ Fault(f)
             /\ IF f
                THEN /\ last' = Err(rq.op, StatusInternalServerError)
                     /\ disk' = Removed(rq.path)
                     /\ req' = Finished(Unlinked(req, rq.path), r)
                ELSE /\ last' = last
                     /\ disk' = IF rq.fdLive
                                THEN [disk EXCEPT ![rq.path] = WriteAt0(@, rq.data)]
                                ELSE disk
                     /\ req' = [req EXCEPT ![r].pc =
                                   IF rq.op = "UploadFile" THEN "commit"
                                   ELSE "lookup"]
    /\ UNCHANGED <<buckets, files, dirs, uniqueKey, nextBucket, nextFile, now,
                   ops>>

\* S3PutObject: existingFile, _ := fileRepo.GetByName(bucket.ID, objectKey);
\* the error is dropped and leaves existingFile nil.
S3PutObjectLookup(r) ==
    /\ req[r].pc = "lookup"
    /\ \E f \in BOOLEAN,
          ex \in RowIDs(FileGetByName(req[r].bucketID, req[r].key)) :
         /\ Fault(f)
         /\ req' = [req EXCEPT ![r].pc = "commit",
                               ![r].existingID = IF f THEN 0 ELSE ex]
    /\ UNCHANGED <<buckets, files, disk, dirs, uniqueKey, nextBucket, nextFile,
                   now, last, ops>>

\* The upsert of either put and the response.  UploadFile answers an error
\* of Update or Create with os.Remove(filePath) and 500; S3PutObject drops
\* the error and answers 200.
PutCommit(r) ==
    /\ req[r].pc = "commit"
    /\ LET rq == req[r]
           ct == ContentTypeOf(rq.ctype)
           size == Len(rq.data)
           etag == Md5Hex(rq.data)
           id == IF rq.existingID # 0 THEN rq.existingID ELSE nextFile
       IN  \E f \in BOOLEAN :
             /\ Fault(f)
             /\ IF f \/ (rq.existingID = 0
                          /\ FileCreateConflict(rq.bucketID, rq.key))
                THEN /\ UNCHANGED <<files, nextFile, now>>
                     /\ IF rq.op = "UploadFile"
                        THEN /\ last' = Err(rq.op, StatusInternalServerError)
                             /\ disk' = Removed(rq.path)
                             /\ req' = Finished(Unlinked(req, rq.path), r)
                        ELSE /\ last' = Resp(rq.op, StatusOK, 0, 0,
                                             Quoted(etag), <<>>)
                             /\ disk' = disk
                             /\ req' = Finished(req, r)
                ELSE /\ files' = IF rq.existingID # 0
                                 THEN FileUpdate(rq.existingID, rq.key, rq.path,
                                                 ct, size, etag)
                                 ELSE FileCreate(rq.bucketID, rq.key, rq.path,
                                                 ct, size, etag, rq.user)
                     /\ nextFile' = IF rq.existingID # 0 THEN nextFile
                                    ELSE nextFile + 1
                     /\ now' = now + 1
                     /\ disk' = disk
                     /\ req' = Finished(req, r)
                     /\ last' = IF rq.op = "UploadFile"
                                THEN Resp(rq.op, StatusOK, id, size, etag, <<>>)
                                ELSE Resp(rq.op, StatusOK, 0, 0, Quoted(etag),
                                          <<>>)
    /\ UNCHANGED <<buckets, dirs, uniqueKey, nextBucket, ops>>

---------------------------------------------------------------------------
(* Reads: listings and downloads *)

\* ORDER BY created_at DESC
RECURSIVE SortDesc(_)
SortDesc(rows) ==
    IF rows = {} THEN <<>>
    ELSE LET top == CHOOSE x \in rows : \A y \in rows : y.createdAt <= x.createdAt
         IN  <<top>> \o SortDesc(rows \ {top})

\* LIMIT ? OFFSET ?
Page(seq, limit, offset) ==
    SubSeq(seq, offset + 1,
           IF Len(seq) < offset + limit THEN Len(seq) ELSE offset + limit)

\* FileRepository.List
FileList(bucketID, limit, offset) ==
    Page(SortDesc({ f \in files : f.bucketID = bucketID }), limit, offset)

\* BucketRepository.List
BucketList(userID, limit, offset) ==
    Page(SortDesc({ b \in buckets : b.userID = userID }), limit, offset)

NamesOf(rows) == [i \in 1..Len(rows) |-> rows[i].name]

\* ListFiles without a prefix and with the default limit 50, offset 0
ListFilesResp(u, b, dbFails) ==
    IF dbFails THEN Err("ListFiles", StatusInternalServerError)
    ELSE IF NativeAccess(u, BucketGetByID(b)) # 0
    THEN Err("ListFiles", NativeAccess(u, BucketGetByID(b)))
    ELSE Resp("ListFiles", StatusOK, b, FileCount(b), <<>>,
              NamesOf(FileList(b, 50, 0)))

ListFiles(u, b) ==
    /\ \E f \in BOOLEAN : Fault(f) /\ last' = ListFilesResp(u, b, f)
    /\ UNCHANGED <<buckets, files, disk, dirs, uniqueKey, nextBucket, nextFile,
                   now, req, ops>>

\* The bucket S3ListObjects lists: the caller's bucket of that name, or else
\* a public one of that name among bucketRepo.List(user.ID, 1000, 0).
S3ListAccess(u, name) ==
    LET own == BucketGetByName(name, u)
        listed == BucketList(u, 1000, 0)
        public == { listed[i] : i \in { j \in 1..Len(listed) :
                        listed[j].name = name /\ listed[j].isPublic } }
        rows == IF own # {} THEN own ELSE public
    IN  IF rows = {} THEN { [status |-> StatusNotFound, id |-> 0] }
        ELSE { [status |-> IF b.userID # u /\ ~b.isPublic
                           THEN StatusForbidden ELSE 0,
                id |-> b.id] : b \in rows }

\* S3ListObjects without a prefix and with the default max-keys 1000
S3ListObjectsResps(u, name, dbFails) ==
    IF dbFails THEN { Err("S3ListObjects", StatusInternalServerError) }
    ELSE { IF a.status # 0 THEN Err("S3ListObjects", a.status)
           ELSE Resp("S3ListObjects", StatusOK, a.id, 0, <<>>,
                     NamesOf(FileList(a.id, 1000, 0)))
           : a \in S3ListAccess(u, name) }

S3ListObjects(u, name) ==
    /\ \E f \in BOOLEAN :
         /\ Fault(f)
         /\ \E resp \in S3ListObjectsResps(u, name, f) : last' = resp
    /\ UNCHANGED <<buckets, files, disk, dirs, uniqueKey, nextBucket, nextFile,
                   now, req, ops>>

\* A download that does not look for the file on disk before it answers.
ServedUnchecked(op, file, etag) ==
    Resp(op, StatusOK, file.id, file.size, etag,
         IF FileExists(file.path) THEN disk[file.path] ELSE <<>>)

\* What a download of row `file` sends: 404 without the file on disk, else
\* the row's size and ETag in the headers and the bytes of the file.
Served(op, file, etag) ==
    IF ~FileExists(file.path) THEN Err(op, StatusNotFound)
    ELSE Resp(op, StatusOK, file.id, file.size, etag, disk[file.path])

\* DownloadFile; ioFails: a lookup or os.Open returns an error.
DownloadFileResp(u, b, id, ioFails) ==
    IF ioFails THEN Err("DownloadFile", StatusInternalServerError)
    ELSE IF NativeAccess(u, BucketGetByID(b)) # 0
    THEN Err("DownloadFile", NativeAccess(u, BucketGetByID(b)))
    ELSE LET rows == FileOfBucket(id, b)
         IN  IF rows = {} THEN Err("DownloadFile", StatusNotFound)
             ELSE LET file == CHOOSE f \in rows : TRUE
                  IN  Served("DownloadFile", file, file.etag)

DownloadFile(u, b, id) ==
    /\ \E f \in BOOLEAN : Fault(f) /\ last' = DownloadFileResp(u, b, id, f)
    /\ UNCHANGED <<buckets, files, disk, dirs, uniqueKey, nextBucket, nextFile,
                   now, req, ops>>

\* S3GetObject: every response it can give (several rows can match a lookup)
S3GetObjectResps(u, name, key, ioFails) ==
    IF ioFails THEN { Err("S3GetObject", StatusInternalServerError) }
    ELSE UNION {
           IF a.status # 0 THEN { Err("S3GetObject", a.status) }
           ELSE IF FileGetByName(a.id, key) = {}
           THEN { Err("S3GetObject", StatusNotFound) }
           ELSE { Served("S3GetObject", file, Quoted(file.etag))
                  : file \in FileGetByName(a.id, key) }
           : a \in S3Access(u, name) }

S3GetObject(u, name, key) ==
    /\ \E f \in BOOLEAN :
         /\ Fault(f)
         /\ \E resp \in S3GetObjectResps(u, name, key, f) : last' = resp
    /\ UNCHANGED <<buckets, files, disk, dirs, uniqueKey, nextBucket, nextFile,
                   now, req, ops>>

---------------------------------------------------------------------------
(* The record of a file: api/file.go GetFile, and what UploadFile returns *)

\* The zero value of time.Time; the clock of the model starts after it.
ZeroTime == 0

\* created_at and updated_at in the response of UploadFile: the CreatedAt
\* and UpdatedAt of dbFile, which the handler builds without them and which
\* neither FileRepository.Create nor FileRepository.Update fills in.
UploadFileTimes == <<ZeroTime, ZeroTime>>

\* GetFile: the record of file `id` addressed through bucket b, with its
\* created_at and updated_at in the body.
GetFileResp(u, b, id, dbFails) ==
    IF dbFails THEN Err("GetFile", StatusInternalServerError)
    ELSE IF NativeAccess(u, BucketGetByID(b)) # 0
    THEN Err("GetFile", NativeAccess(u, BucketGetByID(b)))
    ELSE LET rows == FileOfBucket(id, b)
         IN  IF rows = {} THEN Err("GetFile", StatusNotFound)
             ELSE LET file == CHOOSE f \in rows : TRUE
                  IN  Resp("GetFile", StatusOK, file.id, file.size, file.etag,
                           <<file.createdAt, file.updatedAt>>)

GetFile(u, b, id) ==
    /\ \E f \in BOOLEAN : Fault(f) /\ last' = GetFileResp(u, b, id, f)
    /\ UNCHANGED <<buckets, files, disk, dirs, uniqueKey, nextBucket, nextFile,
                   now, req, ops>>

---------------------------------------------------------------------------
(* Listings with a prefix and a bound *)

\* The characters of the strings that are listed by prefix.
Spell(str) ==
    CASE str = "" -> <<>>
      [] str = "a" -> <<"a">>
      [] str = "ab" -> <<"a", "b">>
      [] str = "Ab" -> <<"A", "b">>
      [] str = "a_" -> <<"a", "_">>
      [] str = "%" -> <<"%">>

\* The characters of a key: those of its segments, "/" between them.
RECURSIVE NameChars(_)
NameChars(name) ==
    IF name = <<>> THEN <<>>
    ELSE IF Len(name) = 1 THEN Spell(name[1])
    ELSE Spell(name[1]) \o <<"/">> \o NameChars(Tail(name))

\* ASCII case folding, as LIKE does it in SQLite.
Lower(c) == IF c = "A" THEN "a" ELSE c

\* text LIKE pattern: "%" matches any run of characters, "_" any one
\* character, any other character itself; fold: the engine compares
\* letters without regard to case (SQLite) or with (PostgreSQL).
RECURSIVE Like(_, _, _)
Like(text, pattern, fold) ==
    IF pattern = <<>> THEN text = <<>>
    ELSE IF Head(pattern) = "%"
    THEN \/ Like(text, Tail(pattern), fold)
         \/ (text # <<>> /\ Like(Tail(text), pattern, fold))
    ELSE /\ text # <<>>
         /\ \/ Head(pattern) = "_"
            \/ Head(pattern) = Head(text)
            \/ (fold /\ Lower(Head(pattern)) = Lower(Head(text)))
         /\ Like(Tail(text), Tail(pattern), fold)

\* FileRepository.ListByPrefix: WHERE bucket_id = ? AND name LIKE prefix+"%"
FileListByPrefix(bucketID, prefix, limit, offset, fold) ==
    Page(SortDesc({ f \in files :
                      /\ f.bucketID = bucketID
                      /\ Like(NameChars(f.name), Spell(prefix) \o <<"%">>,
                              fold) }),
         limit, offset)

\* The files either listing handler fetches: by prefix when one is given.
FilesListed(bucketID, prefix, limit, offset, fold) ==
    IF prefix # "" THEN FileListByPrefix(bucketID, prefix, limit, offset, fold)
    ELSE FileList(bucketID, limit, offset)

\* A limit taken as given, whatever its value.
AnyLimit(l) == l

\* ListFiles: the limit parameter counts when it is in 1..100, else 50.
NativeLimit(l) == IF l > 0 /\ l <= 100 THEN l ELSE 50

\* A listing that ignores max-keys and always takes the default.
DefaultMaxKeys(mk) == 1000

\* S3ListObjects: max-keys counts when it is positive, else 1000.
S3MaxKeys(mk) == IF mk > 0 THEN mk ELSE 1000

\* What a listing shows of each file: key, size and digest.
Entries(rows, surface) ==
    [i \in 1..Len(rows) |->
        [name |-> rows[i].name, size |-> rows[i].size,
         etag |-> IF surface = "s3" THEN Quoted(rows[i].etag)
                  ELSE rows[i].etag]]

\* ListFiles with prefix, limit and offset 0; the total is the bucket's.
ListFilesPageResp(u, b, prefix, l, dbFails, fold) ==
    IF dbFails THEN Err("ListFiles", StatusInternalServerError)
    ELSE IF NativeAccess(u, BucketGetByID(b)) # 0
    THEN Err("ListFiles", NativeAccess(u, BucketGetByID(b)))
    ELSE Resp("ListFiles", StatusOK, b, FileCount(b), <<>>,
              Entries(FilesListed(b, prefix, NativeLimit(l), 0, fold),
                      "native"))

ListFilesPage(u, b, prefix, l) ==
    /\ \E f \in BOOLEAN, fold \in BOOLEAN :
         Fault(f) /\ last' = ListFilesPageResp(u, b, prefix, l, f, fold)
    /\ UNCHANGED <<buckets, files, disk, dirs, uniqueKey, nextBucket, nextFile,
                   now, req, ops>>

\* S3ListObjects with prefix and max-keys
S3ListObjectsPageResps(u, name, prefix, mk, dbFails, fold) ==
    IF dbFails THEN { Err("S3ListObjects", StatusInternalServerError) }
    ELSE { IF a.status # 0 THEN Err("S3ListObjects", a.status)
           ELSE Resp("S3ListObjects", StatusOK, a.id, 0, <<>>,
                     Entries(FilesListed(a.id, prefix, S3MaxKeys(mk), 0, fold),
                             "s3"))
           : a \in S3ListAccess(u, name) }

S3ListObjectsPage(u, name, prefix, mk) ==
    /\ \E f \in BOOLEAN, fold \in BOOLEAN :
         /\ Fault(f)
         /\ \E resp \in S3ListObjectsPageResps(u, name, prefix, mk, f, fold) :
              last' = resp
    /\ UNCHANGED <<buckets, files, disk, dirs, uniqueKey, nextBucket, nextFile,
                   now, req, ops>>

---------------------------------------------------------------------------
(* Last-Modified on the S3 surface *)

\* t.Format(http.TimeFormat) and t.Format(time.RFC3339) of a time of the
\* table, which has whole seconds: the same instant in either notation.
HTTPTime(t) == <<"http", t>>

RFC3339(t) == <<"rfc3339", t>>

\* The time of the last write of the record.
S3LastUpdated(file) == file.updatedAt

\* The time either S3 handler reports as last modified: file.CreatedAt.
S3LastModified(file) == file.createdAt

\* S3GetObject, with the Last-Modified header it sets in the body.
S3GetObjectHeadResps(u, name, key, ioFails) ==
    IF ioFails THEN { Err("S3GetObject", StatusInternalServerError) }
    ELSE UNION {
           IF a.status # 0 THEN { Err("S3GetObject", a.status) }
           ELSE IF FileGetByName(a.id, key) = {}
           THEN { Err("S3GetObject", StatusNotFound) }
           ELSE { IF ~FileExists(file.path)
                  THEN Err("S3GetObject", StatusNotFound)
                  ELSE Resp("S3GetObject", StatusOK, file.id, file.size,
                            Quoted(file.etag),
                            <<HTTPTime(S3LastModified(file))>>)
                  : file \in FileGetByName(a.id, key) }
           : a \in S3Access(u, name) }

S3GetObjectHead(u, name, key) ==
    /\ \E f \in BOOLEAN :
         /\ Fault(f)
         /\ \E resp \in S3GetObjectHeadResps(u, name, key, f) : last' = resp
    /\ UNCHANGED <<buckets, files, disk, dirs, uniqueKey, nextBucket, nextFile,
                   now, req, ops>>

\* The Contents of a ListBucketResult: Key, LastModified, ETag and Size.
Contents(rows) ==
    [i \in 1..Len(rows) |->
        [name |-> rows[i].name,
         lastModified |-> RFC3339(S3LastModified(rows[i])),
         etag |-> Quoted(rows[i].etag), size |-> rows[i].size]]

\* S3ListObjects without prefix or max-keys, with its Contents in the body.
S3ListObjectsContentsResps(u, name, dbFails) ==
    IF dbFails THEN { Err("S3ListObjects", StatusInternalServerError) }
    ELSE { IF a.status # 0 THEN Err("S3ListObjects", a.status)
           ELSE Resp("S3ListObjects", StatusOK, a.id, 0, <<>>,
                     Contents(FileList(a.id, 1000, 0)))
           : a \in S3ListAccess(u, name) }

S3ListObjectsContents(u, name) ==
    /\ \E f \in BOOLEAN :
         /\ Fault(f)
         /\ \E resp \in S3ListObjectsContentsResps(u, name, f) : last' = resp
    /\ UNCHANGED <<buckets, files, disk, dirs, uniqueKey, nextBucket, nextFile,
                   now, req, ops>>

---------------------------------------------------------------------------
(* Native listings by the limit and offset of the query string *)

\* The value of a decimal digit; -1 for any other character.
DigitValue(c) ==
    CASE c = "0" -> 0 [] c = "1" -> 1 [] c = "2" -> 2 [] c = "3" -> 3
      [] c = "4" -> 4 [] c = "5" -> 5 [] c = "6" -> 6 [] c = "7" -> 7
      [] c = "8" -> 8 [] c = "9" -> 9 [] OTHER -> -1

\* The number a run of decimal digits denotes, after the digits of acc.
RECURSIVE DigitsValue(_, _)
DigitsValue(str, acc) ==
    IF str = <<>> THEN acc
    ELSE DigitsValue(Tail(str), 10 * acc + DigitValue(Head(str)))

\* strconv.Atoi of a string given by its characters: an optional sign and
\* at least one digit, nothing else; ok is FALSE where Atoi returns an error.
Atoi(str) ==
    LET signed == str # <<>> /\ Head(str) \in {"+", "-"}
        digits == IF signed THEN Tail(str) ELSE str
    IN  IF digits = <<>> \/ \E i \in 1..Len(digits) : DigitValue(digits[i]) < 0
        THEN [ok |-> FALSE, n |-> 0]
        ELSE [ok |-> TRUE,
              n |-> IF signed /\ Head(str) = "-" THEN 0 - DigitsValue(digits, 0)
                    ELSE DigitsValue(digits, 0)]

\* The accepted offset: a value that is not negative, else 0.
NativeOffset(o) == IF o >= 0 THEN o ELSE 0

\* limit of ListFiles and ListBuckets from the query value: 50 unless the
\* value is there, parses, and is in 1..100.
LimitOf(raw) ==
    IF raw # <<>> /\ Atoi(raw).ok THEN NativeLimit(Atoi(raw).n) ELSE 50

\* offset of ListFiles and ListBuckets from the query value: 0 unless the
\* value is there, parses, and is not negative.
OffsetOf(raw) ==
    IF raw # <<>> /\ Atoi(raw).ok THEN NativeOffset(Atoi(raw).n) ELSE 0

\* ListFiles without a prefix, with the limit and offset of the query.
ListFilesQueryResp(u, b, rawLimit, rawOffset, dbFails) ==
    IF dbFails THEN Err("ListFiles", StatusInternalServerError)
    ELSE IF NativeAccess(u, BucketGetByID(b)) # 0
    THEN Err("ListFiles", NativeAccess(u, BucketGetByID(b)))
    ELSE Resp("ListFiles", StatusOK, b, FileCount(b), <<>>,
              Entries(FileList(b, LimitOf(rawLimit), OffsetOf(rawOffset)),
                      "native"))

ListFilesQuery(u, b, rawLimit, rawOffset) ==
    /\ \E f \in BOOLEAN :
         Fault(f) /\ last' = ListFilesQueryResp(u, b, rawLimit, rawOffset, f)
    /\ UNCHANGED <<buckets, files, disk, dirs, uniqueKey, nextBucket, nextFile,
                   now, req, ops>>

\* ListBuckets: the caller's buckets, with the limit and offset of the query.
ListBucketsResp(u, rawLimit, rawOffset, dbFails) ==
    IF dbFails THEN Err("ListBuckets", StatusInternalServerError)
    ELSE Resp("ListBuckets", StatusOK, 0,
              Cardinality({ b \in buckets : b.userID = u }), <<>>,
              NamesOf(BucketList(u, LimitOf(rawLimit), OffsetOf(rawOffset))))

ListBuckets(u, rawLimit, rawOffset) ==
    /\ \E f \in BOOLEAN :
         Fault(f) /\ last' = ListBucketsResp(u, rawLimit, rawOffset, f)
    /\ UNCHANGED <<buckets, files, disk, dirs, uniqueKey, nextBucket, nextFile,
                   now, req, ops>>

---------------------------------------------------------------------------
(* Deletes: api/file.go DeleteFile and api/s3.go S3DeleteObject *)

\* DeleteFile up to and including fileRepo.GetByID.
DeleteFileStart(r, u, b, id) ==
    /\ Idle(r)
    /\ \E f \in BOOLEAN :
         /\ Fault(f)
         /\ LET rows == FileOfBucket(id, b)
            IN  IF f
                THEN /\ last' = Err("DeleteFile", StatusInternalServerError)
                     /\ UNCHANGED <<req, ops>>
                ELSE IF NativeOwnerAccess(u, BucketGetByID(b)) # 0
                THEN /\ last' = Err("DeleteFile",
                                    NativeOwnerAccess(u, BucketGetByID(b)))
                     /\ UNCHANGED <<req, ops>>
                ELSE IF rows = {}
                THEN /\ last' = Err("DeleteFile", StatusNotFound)
                     /\ UNCHANGED <<req, ops>>
                ELSE /\ last' = last
                     /\ ops' = ops + 1
                     /\ req' = Started(r, [IdleReq EXCEPT !.pc = "remove",
                                   !.op = "DeleteFile", !.user = u,
                                   !.bucketID = b, !.fileID = id,
                                   !.path = (CHOOSE x \in rows : TRUE).path])
    /\ UNCHANGED <<buckets, files, disk, dirs, uniqueKey, nextBucket, nextFile,
                   now>>

\* S3DeleteObject up to and including fileRepo.GetByName.
S3DeleteObjectStart(r, u, name, key) ==
    /\ Idle(r)
    /\ \E f \in BOOLEAN, a \in S3OwnerAccess(u, name) :
         /\ Fault(f)
         /\ IF f
            THEN /\ last' = Err("S3DeleteObject", StatusInternalServerError)
                 /\ UNCHANGED <<req, ops>>
            ELSE IF a.status # 0
            THEN /\ last' = Err("S3DeleteObject", a.status)
                 /\ UNCHANGED <<req, ops>>
            ELSE IF FileGetByName(a.id, key) = {}
            THEN /\ last' = Err("S3DeleteObject", StatusNoContent)
                 /\ UNCHANGED <<req, ops>>
            ELSE \E file \in FileGetByName(a.id, key) :
                 /\ last' = last
                 /\ ops' = ops + 1
                 /\ req' = Started(r, [IdleReq EXCEPT !.pc = "remove",
                                   !.op = "S3DeleteObject", !.user = u,
                                   !.bucketID = a.id, !.bname = name,
                                   !.key = key, !.fileID = file.id,
                                   !.path = file.path])
    /\ UNCHANGED <<buckets, files, disk, dirs, uniqueKey, nextBucket, nextFile,
                   now>>

\* if service.FileExists(file.Path) { os.Remove(file.Path) }: an error of
\* os.Remove is logged (DeleteFile) or dropped (S3DeleteObject).
DeleteRemove(r) ==
    /\ req[r].pc = "remove"
    /\ \E f \in BOOLEAN :
         /\ Fault(f)
         /\ IF f \/ ~FileExists(req[r].path)
            THEN /\ disk' = disk
                 /\ req' = [req EXCEPT ![r].pc = "deleteRow"]
            ELSE /\ disk' = Removed(req[r].path)
                 /\ req' = [Unlinked(req, req[r].path) EXCEPT ![r].pc = "deleteRow"]
    /\ UNCHANGED <<buckets, files, dirs, uniqueKey, nextBucket, nextFile, now,
                   last, ops>>

\* fileRepo.Delete and the response: 200 (DeleteFile), 204 (S3DeleteObject).
DeleteRow(r) ==
    /\ req[r].pc = "deleteRow"
    /\ \E f \in BOOLEAN :
         /\ Fault(f)
         /\ IF f
            THEN /\ last' = Err(req[r].op, StatusInternalServerError)
                 /\ files' = files
            ELSE /\ last' = Err(req[r].op,
                                IF req[r].op = "DeleteFile" THEN StatusOK
                                ELSE StatusNoContent)
                 /\ files' = FileDelete(req[r].fileID)
    /\ req' = Finished(req, r)
    /\ UNCHANGED <<buckets, disk, dirs, uniqueKey, nextBucket, nextFile, now,
                   ops>>

---------------------------------------------------------------------------
(* api/bucket.go DeleteBucket *)

\* BucketRepository.Delete
BucketDelete(id) == { b \in buckets : b.id # id }

\* DeleteBucket up to and including fileRepo.Count: the bucket must exist,
\* the caller must own it, and it must hold no file.
DeleteBucketStart(r, u, b) ==
    /\ Idle(r)
    /\ \E f \in BOOLEAN :
         /\ Fault(f)
         /\ IF f
            THEN /\ last' = Err("DeleteBucket", StatusInternalServerError)
                 /\ UNCHANGED <<req, ops>>
            ELSE IF NativeOwnerAccess(u, BucketGetByID(b)) # 0
            THEN /\ last' = Err("DeleteBucket",
                                NativeOwnerAccess(u, BucketGetByID(b)))
                 /\ UNCHANGED <<req, ops>>
            ELSE IF FileCount(b) > 0
            THEN /\ last' = Err("DeleteBucket", StatusBadRequest)
                 /\ UNCHANGED <<req, ops>>
            ELSE /\ last' = last
                 /\ ops' = ops + 1
                 /\ req' = Started(r, [IdleReq EXCEPT !.pc = "deleteBucket",
                                          !.op = "DeleteBucket", !.user = u,
                                          !.bucketID = b])
    /\ UNCHANGED <<buckets, files, disk, dirs, uniqueKey, nextBucket, nextFile,
                   now>>

\* bucketRepo.Delete and the response.
DeleteBucketDelete(r) ==
    /\ req[r].pc = "deleteBucket"
    /\ \E f \in BOOLEAN :
         /\ Fault(f)
         /\ IF f
            THEN /\ last' = Err("DeleteBucket", StatusInternalServerError)
                 /\ buckets' = buckets
            ELSE /\ last' = Err("DeleteBucket", StatusOK)
                 /\ buckets' = BucketDelete(req[r].bucketID)
    /\ req' = Finished(req, r)
    /\ UNCHANGED <<files, disk, dirs, uniqueKey, nextBucket, nextFile, now,
                   ops>>

---------------------------------------------------------------------------
(* Requests with and without an authenticated identity *)

\* The identity of a request that carries none.
NoUser == 0

\* Who a request comes from: a user, or nobody.
Callers == Users \cup {NoUser}

\* An identity lookup that never fails.
AnyUserFromContext(c) == TRUE

\* The ok of middleware.GetUserFromContext: the context holds a user.
GetUserFromContext(c) == c # NoUser

\* The first statement of every handler when ok is false: 401, and return.
Unauthorized(op) ==
    /\ last' = Err(op, StatusUnauthorized)
    /\ UNCHANGED <<buckets, files, disk, dirs, uniqueKey, nextBucket, nextFile,
                   now, req, ops, faults>>

\* S3ListBuckets: the names of the caller's buckets.
S3ListBucketsResp(u, dbFails) ==
    IF dbFails THEN Err("S3ListBuckets", StatusInternalServerError)
    ELSE Resp("S3ListBuckets", StatusOK, 0, 0, <<>>,
              NamesOf(BucketList(u, 1000, 0)))

S3ListBuckets(u) ==
    /\ \E f \in BOOLEAN : Fault(f) /\ last' = S3ListBucketsResp(u, f)
    /\ UNCHANGED <<buckets, files, disk, dirs, uniqueKey, nextBucket, nextFile,
                   now, req, ops>>

\* Each handler from its first statement, called by c.
CreateBucketAs(r, c, name, isPublic) ==
    IF GetUserFromContext(c) THEN CreateBucketStart(r, c, name, isPublic)
    ELSE Unauthorized("CreateBucket")

ListBucketsAs(c) ==
    IF GetUserFromContext(c) THEN ListBuckets(c, <<>>, <<>>)
    ELSE Unauthorized("ListBuckets")

GetBucketAs(c, id) ==
    IF GetUserFromContext(c) THEN GetBucket(c, id)
    ELSE Unauthorized("GetBucket")

DeleteBucketAs(r, c, b) ==
    IF GetUserFromContext(c) THEN DeleteBucketStart(r, c, b)
    ELSE Unauthorized("DeleteBucket")

UploadFileAs(r, c, b, fname, up) ==
    IF GetUserFromContext(c) THEN UploadFileStart(r, c, b, fname, up)
    ELSE Unauthorized("UploadFile")

ListFilesAs(c, b) ==
    IF GetUserFromContext(c) THEN ListFiles(c, b)
    ELSE Unauthorized("ListFiles")

GetFileAs(c, b, id) ==
    IF GetUserFromContext(c) THEN GetFile(c, b, id)
    ELSE Unauthorized("GetFile")

DownloadFileAs(c, b, id) ==
    IF GetUserFromContext(c) THEN DownloadFile(c, b, id)
    ELSE Unauthorized("DownloadFile")

DeleteFileAs(r, c, b, id) ==
    IF GetUserFromContext(c) THEN DeleteFileStart(r, c, b, id)
    ELSE Unauthorized("DeleteFile")

S3ListBucketsAs(c) ==
    IF GetUserFromContext(c) THEN S3ListBuckets(c)
    ELSE Unauthorized("S3ListBuckets")

S3ListObjectsAs(c, name) ==
    IF GetUserFromContext(c) THEN S3ListObjects(c, name)
    ELSE Unauthorized("S3ListObjects")

S3PutObjectAs(r, c, name, key, up) ==
    IF GetUserFromContext(c) THEN S3PutObjectStart(r, c, name, key, up)
    ELSE Unauthorized("S3PutObject")

S3GetObjectAs(c, name, key) ==
    IF GetUserFromContext(c) THEN S3GetObject(c, name, key)
    ELSE Unauthorized("S3GetObject")

S3DeleteObjectAs(r, c, name, key) ==
    IF GetUserFromContext(c) THEN S3DeleteObjectStart(r, c, name, key)
    ELSE Unauthorized("S3DeleteObject")

---------------------------------------------------------------------------
(* A crash of the process *)

\* The process dies while a put is between its copy and its commit: every
\* request in flight is gone without an answer; the database and what the
\* requests wrote to disk stay as they are.
Crash ==
    /\ \E r \in Slots : req[r].pc \in {"lookup", "commit"}
    /\ req' = [s \in Slots |-> IdleReq]
    /\ last' = NoResp
    /\ UNCHANGED <<buckets, files, disk, dirs, uniqueKey, nextBucket, nextFile,
                   now, ops, faults>>

---------------------------------------------------------------------------
(* The system *)

\* The process starts on an empty store.  No migration of the registry
\* creates the buckets or files table, so whether the deployed schema has
\* the unique indexes is not decided by the program.
Init ==
    /\ buckets = {}
    /\ files = {}
    /\ disk = <<>>
    /\ dirs = {}
    /\ uniqueKey \in BOOLEAN
    /\ nextBucket = 1
    /\ nextFile = 1
    /\ now = 1
    /\ req = [s \in Slots |-> IdleReq]
    /\ last = NoResp
    /\ ops = 0
    /\ faults = 0

\* The file ids a request can name: those handed out and one that is not.
FileIDs == 1..nextFile

\* Concurrent requests of the owner (user 1) and another user on one key of
\* one bucket, from both surfaces.
RaceKeys == { <<"a">> }

Next ==
    \/ \E n \in BucketNames, p \in BOOLEAN :
         /\ nextBucket <= MaxBuckets
         /\ \A s \in Slots : Idle(s)
         /\ CreateBucketStart(1, 1, n, p)
    \/ CreateBucketInsert(1)
    \/ \E r \in Slots, u \in Users, b \in BucketIDs, k \in RaceKeys,
          up \in Uploads : ops < MaxOps /\ UploadFileStart(r, u, b, k, up)
    \/ \E r \in Slots, u \in Users, n \in BucketNames, k \in RaceKeys,
          up \in Uploads : ops < MaxOps /\ S3PutObjectStart(r, u, n, k, up)
    \/ \E r \in Slots : PutCreate(r)
    \/ \E r \in Slots : PutCopy(r)
    \/ \E r \in Slots : S3PutObjectLookup(r)
    \/ \E r \in Slots : PutCommit(r)
    \/ \E r \in Slots, u \in Users, b \in BucketIDs, id \in FileIDs :
         ops < MaxOps /\ DeleteFileStart(r, u, b, id)
    \/ \E r \in Slots, u \in Users, n \in BucketNames, k \in RaceKeys :
         ops < MaxOps /\ S3DeleteObjectStart(r, u, n, k)
    \/ \E r \in Slots : DeleteRemove(r)
    \/ \E r \in Slots : DeleteRow(r)

Spec == Init /\ [][Next]_vars

\* One request at a time on buckets of either owner and visibility: who is
\* let in, on which surface, and what those kept out are told.
AccessIDs == 1..MaxAccessBuckets

AccessUploads == { [data |-> <<1>>, ctype |-> ""] }

NextAccess ==
    \/ \E u \in Users, n \in BucketNames, p \in BOOLEAN :
         nextBucket <= MaxAccessBuckets /\ CreateBucketStart(1, u, n, p)
    \/ CreateBucketInsert(1)
    \/ \E u \in Users, b \in AccessIDs : GetBucket(u, b)
    \/ \E u \in Users, b \in AccessIDs, k \in RaceKeys \cup {<<>>},
          up \in AccessUploads :
         ops < MaxAccessOps /\ UploadFileStart(1, u, b, k, up)
    \/ \E u \in Users, n \in BucketNames, k \in RaceKeys,
          up \in AccessUploads :
         ops < MaxAccessOps /\ S3PutObjectStart(1, u, n, k, up)
    \/ PutCreate(1)
    \/ PutCopy(1)
    \/ S3PutObjectLookup(1)
    \/ PutCommit(1)
    \/ \E u \in Users, b \in AccessIDs : ListFiles(u, b)
    \/ \E u \in Users, n \in BucketNames : S3ListObjects(u, n)
    \/ \E u \in Users, b \in AccessIDs, id \in FileIDs : DownloadFile(u, b, id)
    \/ \E u \in Users, n \in BucketNames, k \in RaceKeys : S3GetObject(u, n, k)
    \/ \E u \in Users, b \in AccessIDs, id \in FileIDs :
         ops < MaxAccessOps /\ DeleteFileStart(1, u, b, id)
    \/ \E u \in Users, n \in BucketNames, k \in RaceKeys :
         ops < MaxAccessOps /\ S3DeleteObjectStart(1, u, n, k)
    \/ DeleteRemove(1)
    \/ DeleteRow(1)

SpecAccess == Init /\ [][NextAccess]_vars

\* One native upload at a time into buckets of either owner and visibility.
NextUpload ==
    \/ \E u \in Users, n \in BucketNames, p \in BOOLEAN :
         nextBucket <= MaxAccessBuckets /\ CreateBucketStart(1, u, n, p)
    \/ CreateBucketInsert(1)
    \/ \E u \in Users, b \in AccessIDs, k \in RaceKeys \cup {<<>>},
          up \in Uploads :
         ops < MaxAccessOps /\ UploadFileStart(1, u, b, k, up)
    \/ PutCreate(1)
    \/ PutCopy(1)
    \/ PutCommit(1)

SpecUpload == Init /\ [][NextUpload]_vars

\* One request at a time by the owner of one bucket, on keys that nest,
\* alias one another or climb out of the bucket's directory.
NativeNames == { FormFileName(k) : k \in Keys }

NextKeys ==
    \/ \E n \in BucketNames, p \in BOOLEAN :
         nextBucket <= MaxBuckets /\ CreateBucketStart(1, 1, n, p)
    \/ CreateBucketInsert(1)
    \/ \E b \in BucketIDs, k \in NativeNames, up \in Uploads :
         ops < MaxKeyOps /\ UploadFileStart(1, 1, b, k, up)
    \/ \E n \in BucketNames, k \in Keys, up \in Uploads :
         ops < MaxKeyOps /\ S3PutObjectStart(1, 1, n, k, up)
    \/ PutCreate(1)
    \/ PutCopy(1)
    \/ S3PutObjectLookup(1)
    \/ PutCommit(1)
    \/ \E b \in BucketIDs, id \in FileIDs : DownloadFile(1, b, id)
    \/ \E n \in BucketNames, k \in Keys : S3GetObject(1, n, k)
    \/ \E n \in BucketNames, k \in Keys :
         ops < MaxKeyOps /\ S3DeleteObjectStart(1, 1, n, k)
    \/ DeleteRemove(1)
    \/ DeleteRow(1)

SpecKeys == Init /\ [][NextKeys]_vars

\* Concurrent requests of the owner (user 1) and another user on one bucket:
\* uploads into it, deletes of its files and deletes of the bucket.
LifeUploads == { [data |-> <<1>>, ctype |-> ""] }

NextLife ==
    \/ \E n \in BucketNames, p \in BOOLEAN :
         /\ nextBucket <= MaxBuckets
         /\ \A s \in Slots : Idle(s)
         /\ CreateBucketStart(1, 1, n, p)
    \/ CreateBucketInsert(1)
    \/ \E r \in Slots, u \in Users, b \in BucketIDs :
         ops < MaxLifeOps /\ DeleteBucketStart(r, u, b)
    \/ \E r \in Slots : DeleteBucketDelete(r)
    \/ \E r \in Slots, u \in Users, b \in BucketIDs, k \in RaceKeys,
          up \in LifeUploads :
         ops < MaxLifeOps /\ UploadFileStart(r, u, b, k, up)
    \/ \E r \in Slots : PutCreate(r)
    \/ \E r \in Slots : PutCopy(r)
    \/ \E r \in Slots : PutCommit(r)
    \/ \E r \in Slots, u \in Users, b \in BucketIDs, id \in FileIDs :
         ops < MaxLifeOps /\ DeleteFileStart(r, u, b, id)
    \/ \E r \in Slots, u \in Users, n \in BucketNames, k \in RaceKeys :
         ops < MaxLifeOps /\ S3DeleteObjectStart(r, u, n, k)
    \/ \E r \in Slots : DeleteRemove(r)
    \/ \E r \in Slots : DeleteRow(r)

\* Concurrent CreateBucket requests of both users.
NextCreate ==
    \/ \E r \in Slots, u \in Users, n \in BucketNames, p \in BOOLEAN :
         nextBucket <= MaxCreateBuckets /\ CreateBucketStart(r, u, n, p)
    \/ \E r \in Slots : CreateBucketInsert(r)

SpecCreate == Init /\ [][NextCreate]_vars

SpecLife == Init /\ [][NextLife]_vars

\* One request at a time by the owner of one bucket: puts of keys with
\* letters of either case and the characters "_" and "%", and listings by
\* prefix and bound on both surfaces.
ListKeys == { <<"ab">>, <<"Ab">>, <<"a_">> }

ListPrefixes == { "", "a", "a_", "%" }

ListBounds == 0..MaxListBound

NextList ==
    \/ \E n \in BucketNames, p \in BOOLEAN :
         nextBucket <= MaxBuckets /\ CreateBucketStart(1, 1, n, p)
    \/ CreateBucketInsert(1)
    \/ \E n \in BucketNames, k \in ListKeys, up \in LifeUploads :
         ops < MaxListOps /\ S3PutObjectStart(1, 1, n, k, up)
    \/ PutCreate(1)
    \/ PutCopy(1)
    \/ S3PutObjectLookup(1)
    \/ PutCommit(1)
    \/ \E b \in BucketIDs, prefix \in ListPrefixes, l \in ListBounds :
         ListFilesPage(1, b, prefix, l)
    \/ \E n \in BucketNames, prefix \in ListPrefixes, mk \in ListBounds :
         S3ListObjectsPage(1, n, prefix, mk)

SpecList == Init /\ [][NextList]_vars

\* The same puts into private buckets, and between them, of the listings,
\* one by prefix "a" at the largest bound on each surface.
NextAgree ==
    \/ \E n \in BucketNames :
         nextBucket <= MaxBuckets /\ CreateBucketStart(1, 1, n, FALSE)
    \/ CreateBucketInsert(1)
    \/ \E n \in BucketNames, k \in ListKeys, up \in LifeUploads :
         ops < MaxListOps /\ S3PutObjectStart(1, 1, n, k, up)
    \/ PutCreate(1)
    \/ PutCopy(1)
    \/ S3PutObjectLookup(1)
    \/ PutCommit(1)
    \/ \E b \in BucketIDs : Idle(1) /\ ListFilesPage(1, b, "a", MaxListBound)
    \/ \E n \in BucketNames :
         Idle(1) /\ S3ListObjectsPage(1, n, "a", MaxListBound)

SpecAgree == Init /\ [][NextAgree]_vars

\* One request at a time on one key of one bucket of user 1, by the owner
\* and by another user: puts, downloads and deletes on both surfaces.
NextObject ==
    \/ \E n \in BucketNames, p \in BOOLEAN :
         nextBucket <= MaxBuckets /\ CreateBucketStart(1, 1, n, p)
    \/ CreateBucketInsert(1)
    \/ \E u \in Users, b \in BucketIDs, k \in RaceKeys, up \in LifeUploads :
         ops < MaxObjectOps /\ UploadFileStart(1, u, b, k, up)
    \/ \E n \in BucketNames, k \in RaceKeys, up \in LifeUploads :
         ops < MaxObjectOps /\ S3PutObjectStart(1, 1, n, k, up)
    \/ PutCreate(1)
    \/ PutCopy(1)
    \/ S3PutObjectLookup(1)
    \/ PutCommit(1)
    \/ \E u \in Users, b \in BucketIDs, id \in FileIDs :
         Idle(1) /\ DownloadFile(u, b, id)
    \/ \E n \in BucketNames, k \in RaceKeys : Idle(1) /\ S3GetObject(1, n, k)
    \/ \E u \in Users, b \in BucketIDs, id \in FileIDs :
         ops < MaxObjectOps /\ DeleteFileStart(1, u, b, id)
    \/ \E n \in BucketNames, k \in RaceKeys :
         ops < MaxObjectOps /\ S3DeleteObjectStart(1, 1, n, k)
    \/ DeleteRemove(1)
    \/ DeleteRow(1)

SpecObject == Init /\ [][NextObject]_vars

\* One put at a time by the owner on one key of one bucket, from either
\* surface, and crashes of the process.
NextCrash ==
    \/ \E n \in BucketNames, p \in BOOLEAN :
         nextBucket <= MaxBuckets /\ CreateBucketStart(1, 1, n, p)
    \/ CreateBucketInsert(1)
    \/ \E b \in BucketIDs, k \in RaceKeys, up \in Uploads :
         ops < MaxObjectOps /\ UploadFileStart(1, 1, b, k, up)
    \/ \E n \in BucketNames, k \in RaceKeys, up \in Uploads :
         ops < MaxObjectOps /\ S3PutObjectStart(1, 1, n, k, up)
    \/ PutCreate(1)
    \/ PutCopy(1)
    \/ S3PutObjectLookup(1)
    \/ PutCommit(1)
    \/ Crash

SpecCrash == Init /\ [][NextCrash]_vars

\* Query values of limit and offset: missing, malformed, negative, zero,
\* small, and around the upper end of the accepted limits.
QueryValues ==
    { <<>>, <<"x">>, <<"1", "x">>, <<"-", "1">>, <<"0">>, <<"1">>, <<"2">>,
      <<"1", "0", "0">>, <<"1", "0", "1">> }

\* The query values of limit and of offset that the listing requests take.
QueryLimits == { <<>>, <<"1">>, <<"1", "0", "1">> }

QueryOffsets == { <<>>, <<"-", "1">>, <<"1">> }

PageNames == {"x", "y"}

\* One request at a time by user 1: private buckets, uploads into the first
\* of them, and the two native listings by query values.
NextPage ==
    \/ \E n \in PageNames :
         nextBucket <= MaxPageBuckets /\ CreateBucketStart(1, 1, n, FALSE)
    \/ CreateBucketInsert(1)
    \/ \E k \in ListKeys, up \in LifeUploads :
         ops < MaxPageOps /\ UploadFileStart(1, 1, 1, k, up)
    \/ PutCreate(1)
    \/ PutCopy(1)
    \/ PutCommit(1)
    \/ \E rl \in QueryLimits, ro \in QueryOffsets :
         Idle(1) /\ ListFilesQuery(1, 1, rl, ro)
    \/ \E rl \in QueryLimits, ro \in QueryOffsets :
         Idle(1) /\ ListBuckets(1, rl, ro)

SpecPage == Init /\ [][NextPage]_vars

\* One request at a time on two buckets of user 1, on the native surface:
\* uploads by the owner, and reads, downloads and deletes, by the owner and
\* by another user, that pair any file id with any bucket id.
RecordBuckets == 1..MaxRecordBuckets

NextRecord ==
    \/ \E n \in PageNames, p \in BOOLEAN :
         nextBucket <= MaxRecordBuckets /\ CreateBucketStart(1, 1, n, p)
    \/ CreateBucketInsert(1)
    \/ \E b \in RecordBuckets, k \in RaceKeys, up \in LifeUploads :
         ops < MaxRecordOps /\ UploadFileStart(1, 1, b, k, up)
    \/ PutCreate(1)
    \/ PutCopy(1)
    \/ PutCommit(1)
    \/ \E u \in Users, b \in RecordBuckets, id \in FileIDs :
         Idle(1) /\ GetFile(u, b, id)
    \/ \E u \in Users, b \in RecordBuckets, id \in FileIDs :
         Idle(1) /\ DownloadFile(u, b, id)
    \/ \E u \in Users, b \in RecordBuckets, id \in FileIDs :
         ops <= MaxRecordOps /\ DeleteFileStart(1, u, b, id)
    \/ DeleteRemove(1)
    \/ DeleteRow(1)

SpecRecord == Init /\ [][NextRecord]_vars

\* One request at a time by the owner of one bucket on the S3 surface: puts
\* of one key, first writes and overwrites, and between them gets of the
\* key and listings of the bucket.
NextModified ==
    \/ \E n \in BucketNames, p \in BOOLEAN :
         nextBucket <= MaxBuckets /\ CreateBucketStart(1, 1, n, p)
    \/ CreateBucketInsert(1)
    \/ \E n \in BucketNames, k \in RaceKeys, up \in Uploads :
         ops < MaxModifiedOps /\ S3PutObjectStart(1, 1, n, k, up)
    \/ PutCreate(1)
    \/ PutCopy(1)
    \/ S3PutObjectLookup(1)
    \/ PutCommit(1)
    \/ \E n \in BucketNames, k \in RaceKeys :
         Idle(1) /\ S3GetObjectHead(1, n, k)
    \/ \E n \in BucketNames : Idle(1) /\ S3ListObjectsContents(1, n)

SpecModified == Init /\ [][NextModified]_vars

\* One request at a time to every handler of both surfaces, from user 1 or
\* from nobody, on one private bucket and one key.
NextAuth ==
    \/ \E c \in Callers \ {2}, n \in BucketNames :
         nextBucket <= MaxBuckets /\ CreateBucketAs(1, c, n, FALSE)
    \/ CreateBucketInsert(1)
    \/ \E c \in Callers \ {2} : Idle(1) /\ ListBucketsAs(c)
    \/ \E c \in Callers \ {2}, b \in BucketIDs : Idle(1) /\ GetBucketAs(c, b)
    \/ \E c \in Callers \ {2}, b \in BucketIDs :
         ops <= MaxAuthOps /\ Idle(1) /\ DeleteBucketAs(1, c, b)
    \/ DeleteBucketDelete(1)
    \/ \E c \in Callers \ {2}, b \in BucketIDs, k \in RaceKeys, up \in LifeUploads :
         ops < MaxAuthOps /\ Idle(1) /\ UploadFileAs(1, c, b, k, up)
    \/ \E c \in Callers \ {2}, n \in BucketNames, k \in RaceKeys, up \in LifeUploads :
         ops < MaxAuthOps /\ Idle(1) /\ S3PutObjectAs(1, c, n, k, up)
    \/ PutCreate(1)
    \/ PutCopy(1)
    \/ S3PutObjectLookup(1)
    \/ PutCommit(1)
    \/ \E c \in Callers \ {2}, b \in BucketIDs : Idle(1) /\ ListFilesAs(c, b)
    \/ \E c \in Callers \ {2}, b \in BucketIDs, id \in FileIDs :
         Idle(1) /\ GetFileAs(c, b, id)
    \/ \E c \in Callers \ {2}, b \in BucketIDs, id \in FileIDs :
         Idle(1) /\ DownloadFileAs(c, b, id)
    \/ \E c \in Callers \ {2}, b \in BucketIDs, id \in FileIDs :
         ops <= MaxAuthOps /\ Idle(1) /\ DeleteFileAs(1, c, b, id)
    \/ \E c \in Callers \ {2} : Idle(1) /\ S3ListBucketsAs(c)
    \/ \E c \in Callers \ {2}, n \in BucketNames : Idle(1) /\ S3ListObjectsAs(c, n)
    \/ \E c \in Callers \ {2}, n \in BucketNames, k \in RaceKeys :
         Idle(1) /\ S3GetObjectAs(c, n, k)
    \/ \E c \in Callers \ {2}, n \in BucketNames, k \in RaceKeys :
         ops <= MaxAuthOps /\ Idle(1) /\ S3DeleteObjectAs(1, c, n, k)
    \/ DeleteRemove(1)
    \/ DeleteRow(1)

SpecAuth == Init /\ [][NextAuth]_vars

---------------------------------------------------------------------------
(* Properties *)

\* A put, of either surface, is running in slot r on bucket b and key k.
PutInFlight(r, b, k) ==
    /\ req[r].op \in {"UploadFile", "S3PutObject"}
    /\ req[r].bucketID = b
    /\ req[r].key = k

PutSucceeds(r) ==
    /\ req[r].pc = "commit"
    /\ req'[r].pc = "idle"
    /\ last'.op = req[r].op
    /\ last'.status = StatusOK

\* C1: a put (UploadFile or S3PutObject) that succeeds on a (bucketID, key)
\* which already has a record updates that record in place: afterwards exactly
\* one record of the key exists, it has the id, bucketID and createdAt of the
\* record found, and the size, contentHash, contentType and updatedAt of this
\* upload.
C1_OverwriteInPlace ==
    [][\A r \in Slots :
         LET rq == req[r]
             old == FileGetByName(rq.bucketID, rq.key)
             new == { g \in files' : g.bucketID = rq.bucketID
                                      /\ g.name = rq.key }
         IN  (PutSucceeds(r) /\ old # {}) =>
                 /\ Cardinality(new) = 1
                 /\ \A f \in old, g \in new :
                       /\ g.id = f.id
                       /\ g.bucketID = f.bucketID
                       /\ g.createdAt = f.createdAt
                       /\ g.size = Len(rq.data)
                       /\ g.etag = Md5Hex(rq.data)
                       /\ g.ctype = ContentTypeOf(rq.ctype)
                       /\ g.updatedAt = now]_vars

\* C2: a put of bytes B that ran with no other writing request beside it and
\* was answered 200 leaves a record of the key whose ETag is the hex MD5 of B,
\* and a download of the object by the bucket's owner, native or S3, answers
\* 200 with exactly B and that ETag (quoted on the S3 surface).  First writes
\* and overwrites alike.
C2_RoundTrip ==
    [][\A r \in Slots : \A rq \in {req[r]} : \A bucket \in BucketGetByID(rq.bucketID) :
         (PutSucceeds(r) /\ rq.solo) =>
             /\ FileGetByName(rq.bucketID, rq.key)' # {}
             /\ \A g \in FileGetByName(rq.bucketID, rq.key)' :
                   /\ g.etag = Md5Hex(rq.data)
                   /\ DownloadFileResp(bucket.userID, rq.bucketID, g.id, FALSE)'
                        = Resp("DownloadFile", StatusOK, g.id, Len(rq.data),
                               Md5Hex(rq.data), rq.data)
             /\ \A d \in S3GetObjectResps(bucket.userID, bucket.name, rq.key,
                                           FALSE)' :
                   /\ d.status = StatusOK
                   /\ d.body = rq.data
                   /\ d.etag = Quoted(Md5Hex(rq.data))]_vars

\* C4: under a schema with the unique index, a put whose lookup found no
\* record, and which commits without any I/O or database failure after a
\* concurrent put has inserted the key's record (so that its insert hits the
\* conflict), is completed as an update of that record: it is answered 200
\* and the winner's row, and no other, carries its size and ETag.
C4_RaceRetriedAsUpdate ==
    [][\A r \in Slots : \A rq \in {req[r]} :
       \A winner \in FileGetByName(rq.bucketID, rq.key) :
         (/\ rq.pc = "commit"
          /\ req'[r].pc = "idle"
          /\ rq.existingID = 0
          /\ uniqueKey
          /\ faults' = 0) =>
             /\ last'.op = rq.op
             /\ last'.status = StatusOK
             /\ \A g \in FileGetByName(rq.bucketID, rq.key)' :
                   /\ g.id = winner.id
                   /\ g.size = Len(rq.data)
                   /\ g.etag = Md5Hex(rq.data)]_vars

\* C5: in every reachable state, a record whose object no put is working on,
\* and whose file exists, has the length of the bytes at its storagePath as
\* its size and their hex MD5 as its contentHash.
C5_RecordMatchesContent ==
    \A f \in files :
        (/\ \A r \in Slots : ~PutInFlight(r, f.bucketID, f.name)
         /\ FileExists(f.path)) =>
            /\ f.size = Len(disk[f.path])
            /\ f.etag = Md5Hex(disk[f.path])

\* The step removes the file at path p on behalf of a delete request.
DeleteRemoves(p) ==
    \E r \in Slots : /\ req[r].pc = "remove"
                      /\ req'[r].pc = "deleteRow"
                      /\ req[r].path = p

\* C6: the row a put commits when it is answered 200 has a file at its
\* storagePath, and the file stays for as long as the row is neither
\* overwritten nor under deletion, whatever other requests do, puts of the
\* same key that fail included.
C6_RowHasContent ==
    [][/\ \A r \in Slots :
            PutSucceeds(r) => \A g \in files' \ files : FileExists(g.path)'
       /\ \A f \in files :
            (FileExists(f.path) /\ f \in files' /\ ~DeleteRemoves(f.path))
                => FileExists(f.path)']_vars

\* Path p lies inside directory d.
Inside(d, p) == IsPrefix(d, p) /\ Len(p) > Len(d)

\* C7: a key with a parent-directory segment never gets a record, and every
\* file on disk lies inside <base>/<ownerID>/<bucketID>/ of some bucket: no
\* request creates a file outside its bucket's subtree.
C7_KeyStaysInBucket ==
    /\ \A f \in files : \A i \in 1..Len(f.name) : f.name[i] # ".."
    /\ \A p \in DOMAIN disk :
         \E b \in buckets : Inside(StorageDir(b.userID, b.id), p)

\* The step sends the response resp.
Answered(resp) == last' = resp /\ last' # last

\* C8: what GetBucket and ListFiles answer a user about a private bucket of
\* another owner is NotFound, the very response they give for a bucket id
\* that does not exist; and S3ListObjects answers neither Forbidden nor with
\* that bucket.
C8_PrivateBucketInvisible ==
    [][\A u \in Users : \A b \in buckets :
         (b.userID # u /\ ~b.isPublic) =>
             /\ Answered(GetBucketResp(u, b.id, FALSE)) =>
                    last' = Err("GetBucket", StatusNotFound)
             /\ Answered(ListFilesResp(u, b.id, FALSE)) =>
                    last' = Err("ListFiles", StatusNotFound)
             /\ \A d \in S3ListObjectsResps(u, b.name, FALSE) :
                    Answered(d) => (d.status # StatusForbidden /\ d.id # b.id)]_vars

\* C9: UploadFile lets a user put into a bucket exactly when the user owns it
\* or it is public: the access decision is 0 for precisely those, a put that
\* goes on past the check is on such a bucket, and the Forbidden answer to a
\* non-owner of a private bucket leaves rows, files, directories and
\* requests as they were.
C9_NativePutPermission ==
    [][/\ \A u \in Users : \A b \in buckets :
            (NativeAccess(u, {b}) = 0) <=> (b.userID = u \/ b.isPublic)
       /\ \A r \in Slots :
            (Idle(r) /\ req'[r].op = "UploadFile") =>
                \E b \in buckets : /\ b.id = req'[r].bucketID
                                    /\ (b.userID = req'[r].user \/ b.isPublic)
       /\ Answered(Err("UploadFile", StatusForbidden)) =>
            /\ \E u \in Users : \E b \in buckets :
                    b.userID # u /\ ~b.isPublic
            /\ UNCHANGED <<files, disk, dirs, req, ops>>]_vars

\* C9 witness: another user's upload sits in a public bucket, and an upload
\* has just been refused with Forbidden.
C9_Witness ==
    /\ last = Err("UploadFile", StatusForbidden)
    /\ \E f \in files : \E b \in buckets :
          /\ f.bucketID = b.id
          /\ b.isPublic
          /\ f.userID # b.userID
          /\ FileExists(f.path)

\* An S3 access decision lets the request go on, onto bucket b.
Admits(decisions, b) == \E a \in decisions : a.status = 0 /\ a.id = b.id

\* C10: for every user and bucket the user can name on the S3 surface (its
\* own, or one whose name none of its own buckets has), the S3 handlers admit
\* the user exactly when the native ones do: get and put object like
\* DownloadFile and UploadFile, list objects like ListFiles, delete object
\* like DeleteFile.
C10_SurfacesAgree ==
    \A u \in Users : \A b \in buckets :
        (b.userID = u \/ BucketGetByName(b.name, u) = {}) =>
            /\ (NativeAccess(u, {b}) = 0) <=> Admits(S3Access(u, b.name), b)
            /\ (NativeAccess(u, {b}) = 0) <=> Admits(S3ListAccess(u, b.name), b)
            /\ (NativeOwnerAccess(u, {b}) = 0)
                   <=> Admits(S3OwnerAccess(u, b.name), b)

\* The requests that delete.
DeleteOps == {"DeleteFile", "S3DeleteObject", "DeleteBucket"}

\* C11: only the owner deletes, whatever the bucket's visibility: the delete
\* handlers admit the owner alone; every delete request that got past the
\* check is the owner's; a bucket or a file record disappears only in a step
\* of such a request; and the Forbidden answer to a delete leaves buckets,
\* records, disk and requests as they were.
C11_OwnerOnlyDelete ==
    [][/\ \A u \in Users : \A b \in buckets :
            /\ (NativeOwnerAccess(u, {b}) = 0) <=> (b.userID = u)
            /\ Admits(S3OwnerAccess(u, b.name), b) => (b.userID = u)
       /\ \A r \in Slots :
            req[r].op \in DeleteOps =>
                \A b \in BucketGetByID(req[r].bucketID) : b.userID = req[r].user
       /\ \A b \in buckets \ buckets' :
            \E r \in Slots : /\ req[r].op = "DeleteBucket"
                              /\ req[r].bucketID = b.id
                              /\ req[r].user = b.userID
       /\ \A f \in files \ files' :
            (FileGetByID(f.id)' = {}) =>
                \E r \in Slots : /\ req[r].op \in {"DeleteFile", "S3DeleteObject"}
                                  /\ req[r].fileID = f.id
                                  /\ req[r].bucketID = f.bucketID
       /\ \A op \in DeleteOps :
            Answered(Err(op, StatusForbidden)) =>
                UNCHANGED <<buckets, files, disk, dirs, req, ops>>]_vars

\* C11 witness: a public bucket of user 1 holds a file, and a delete (by the
\* other user) has just been refused with Forbidden.
C11_Witness ==
    /\ last = Err("DeleteFile", StatusForbidden)
    /\ \E b \in buckets : \E f \in files :
          b.isPublic /\ f.bucketID = b.id /\ FileExists(f.path)

\* The buckets named n that user u owns.
Owned(u, n) == { b \in buckets : b.userID = u /\ b.name = n }

\* C12: a CreateBucket that starts, without a database failure, when its
\* owner already has a bucket of that name is answered Conflict and creates
\* nothing; one that starts when its owner has none goes on to the insert,
\* whatever other owners have, and the insert, when it does not fail, answers
\* 201 and adds one bucket with a fresh id, that owner and that name.
C12_BucketNamePerOwner ==
    [][/\ \A r \in Slots, u \in Users, n \in BucketNames, p \in BOOLEAN :
            (CreateBucketStart(r, u, n, p) /\ faults' = faults) =>
                IF Owned(u, n) # {}
                THEN /\ last' = Err("CreateBucket", StatusConflict)
                     /\ UNCHANGED <<buckets, req>>
                ELSE /\ req'[r].pc = "insertBucket"
                     /\ req'[r].user = u
                     /\ req'[r].bname = n
       /\ \A r \in Slots : \A rq \in {req[r]} :
            (/\ CreateBucketInsert(r)
             /\ faults' = faults
             /\ Owned(rq.user, rq.bname) = {}) =>
                /\ last'.status = StatusCreated
                /\ \E b \in buckets' \ buckets :
                      /\ buckets' = buckets \cup {b}
                      /\ b.userID = rq.user
                      /\ b.name = rq.bname
                      /\ \A c \in buckets : c.id # b.id]_vars

\* C12 witness: two owners each have a bucket of the same name, and a
\* further CreateBucket has just been answered Conflict.
C12_Witness ==
    /\ last = Err("CreateBucket", StatusConflict)
    /\ Cardinality(buckets) = 2
    /\ \E b, c \in buckets : b.name = c.name /\ b.userID # c.userID

\* C13: however concurrent CreateBucket requests of one owner and one name
\* interleave, at most one bucket of that owner and name exists, and a
\* request that reaches its insert, without any failure, after another has
\* created the bucket is answered Conflict and creates nothing.
C13_CreateRaceConflict ==
    [][/\ \A b, c \in buckets' :
            (b.userID = c.userID /\ b.name = c.name) => b.id = c.id
       /\ \A r \in Slots : \A rq \in {req[r]} :
            (/\ CreateBucketInsert(r)
             /\ faults' = faults
             /\ Owned(rq.user, rq.bname) # {}) =>
                /\ last' = Err("CreateBucket", StatusConflict)
                /\ buckets' = buckets]_vars

\* The records of bucket b.
Holds(b) == { f \in files : f.bucketID = b }

\* What DeleteBucket is to answer a request on a bucket that holds a record,
\* given the status the owner gets and the status everyone else gets; and
\* what it is to do on an empty one.
DeleteBucketAnswers(ownerStatus, otherStatus) ==
    /\ \A r \in Slots, u \in Users : \A bk \in buckets :
         (DeleteBucketStart(r, u, bk.id) /\ faults' = faults) =>
             IF Holds(bk.id) # {}
             THEN /\ last' = Err("DeleteBucket",
                                 IF bk.userID = u THEN ownerStatus
                                 ELSE otherStatus)
                  /\ UNCHANGED <<buckets, files, disk, dirs, req>>
             ELSE (bk.userID = u) =>
                     /\ req'[r].pc = "deleteBucket"
                     /\ req'[r].bucketID = bk.id
    /\ \A r \in Slots : \A rq \in {req[r]} :
         (DeleteBucketDelete(r) /\ faults' = faults) =>
             /\ last' = Err("DeleteBucket", StatusOK)
             /\ buckets' = { b \in buckets : b.id # rq.bucketID }
             /\ UNCHANGED <<files, disk>>

\* C14 as amended: DeleteBucket on a bucket that holds a record fails for
\* every caller and leaves bucket, records and files as they are, with the
\* non-empty error (400) for the owner and Forbidden (403) for anyone else;
\* on an empty bucket the owner's DeleteBucket goes on and, when nothing
\* fails, removes the bucket and answers 200.
C14_DeleteNonEmptyFails ==
    [][DeleteBucketAnswers(StatusBadRequest, StatusForbidden)]_vars

\* C14 as stated: the non-empty error for every caller, owner or not.
C14_NonEmptyForEveryActor ==
    [][DeleteBucketAnswers(StatusBadRequest, StatusBadRequest)]_vars

\* C14 witness: the bucket holds a file, and its owner's DeleteBucket has
\* just been refused with the non-empty error.
C14_Witness ==
    /\ last = Err("DeleteBucket", StatusBadRequest)
    /\ \E b \in buckets : \E f \in Holds(b.id) : FileExists(f.path)

\* C15: in every reachable state every file record's bucketID is the id of
\* a bucket that exists.
C15_RecordHasBucket ==
    \A f \in files : BucketGetByID(f.bucketID) # {}

\* The first `limit` records of bucket b whose key starts with the prefix,
\* newest first.
PrefixPage(b, prefix, limit) ==
    Page(SortDesc({ f \in Holds(b) :
                      IsPrefix(Spell(prefix), NameChars(f.name)) }),
         limit, 0)

\* C16: a listing by the owner with prefix p, on either surface and whatever
\* the engine's case rule, shows exactly the first records, up to the bound
\* in force, of those whose key starts with p, newest first.
C16_PrefixListing ==
    [][\A b \in buckets, prefix \in ListPrefixes, l \in ListBounds,
         fold \in BOOLEAN :
         /\ Answered(ListFilesPageResp(b.userID, b.id, prefix, l, FALSE, fold))
              => last'.body = Entries(PrefixPage(b.id, prefix, NativeLimit(l)),
                                      "native")
         /\ \A d \in S3ListObjectsPageResps(b.userID, b.name, prefix, l,
                                             FALSE, fold) :
              Answered(d)
              => d.body = Entries(PrefixPage(b.id, prefix, S3MaxKeys(l)),
                                  "s3")]_vars


\* C17: after a put of bytes B by the bucket's owner is answered 200, a get
\* of the same bucket and key by the owner through the other surface finds
\* the object and returns exactly B with the hex MD5 of B: an UploadFile is
\* read back by S3GetObject (ETag quoted), an S3PutObject by DownloadFile of
\* the key's record (ETag unquoted).
C17_CrossSurfaceRoundTrip ==
    [][\A r \in Slots : \A rq \in {req[r]} :
         \A bucket \in BucketGetByID(rq.bucketID) :
           (PutSucceeds(r) /\ rq.user = bucket.userID) =>
               IF rq.op = "UploadFile"
               THEN \A d \in S3GetObjectResps(bucket.userID, bucket.name,
                                              rq.key, FALSE)' :
                       d = Resp("S3GetObject", StatusOK, d.id, Len(rq.data),
                                Quoted(Md5Hex(rq.data)), rq.data)
               ELSE /\ FileGetByName(rq.bucketID, rq.key)' # {}
                    /\ \A g \in FileGetByName(rq.bucketID, rq.key)' :
                          DownloadFileResp(bucket.userID, rq.bucketID, g.id,
                                           FALSE)'
                            = Resp("DownloadFile", StatusOK, g.id,
                                   Len(rq.data), Md5Hex(rq.data), rq.data)]_vars

\* C18: in every state, for every bucket, prefix and bound n in 1..100, the
\* listing of ListFiles (limit n, offset 0) and every listing of
\* S3ListObjects (max-keys n) asked by the bucket's owner on the same engine
\* answer 200 with the same number of entries, and entry by entry the same
\* key, the same size and the same digest (quoted on the S3 surface).
C18_ListingsAgree ==
    \A b \in buckets, prefix \in ListPrefixes, fold \in BOOLEAN :
      \A n \in { l \in ListBounds : 1 <= l /\ l <= 100 } :
        \A native \in {ListFilesPageResp(b.userID, b.id, prefix, n, FALSE, fold)} :
          \A d \in S3ListObjectsPageResps(b.userID, b.name, prefix, n, FALSE,
                                          fold) :
            /\ native.status = StatusOK
            /\ d.status = StatusOK
            /\ Len(d.body) = Len(native.body)
            /\ \A i \in 1..Len(native.body) :
                  /\ d.body[i].name = native.body[i].name
                  /\ d.body[i].size = native.body[i].size
                  /\ d.body[i].etag = Quoted(native.body[i].etag)

\* A listing by prefix has answered the owner with a page that the bound cut
\* short: more files of the bucket match than it shows.
C18_Witness ==
    \E b \in buckets, prefix \in ListPrefixes \ {""}, fold \in BOOLEAN :
      /\ last \in S3ListObjectsPageResps(b.userID, b.name, prefix, MaxListBound, FALSE, fold)
      /\ last.op = "S3ListObjects"
      /\ Len(last.body) = MaxListBound
      /\ Len(FilesListed(b.id, prefix, 1000, 0, fold)) > MaxListBound

\* C19: no put on either surface is answered 200 unless its metadata row was
\* committed: the step that answers 200 writes a record of the put's bucket
\* and key with the size and the MD5 of the bytes put.  In particular a put
\* whose lookup, insert or update fails is not answered 200.
C19_PutErrorsSurfaced ==
    [][\A r \in Slots : \A rq \in {req[r]} :
         PutSucceeds(r) =>
             \E g \in files' \ files :
                /\ g.bucketID = rq.bucketID
                /\ g.name = rq.key
                /\ g.size = Len(rq.data)
                /\ g.etag = Md5Hex(rq.data)]_vars

C21_MissingFileNotFound ==
    [][/\ \A u \in Users, b \in BucketIDs, id \in FileIDs :
            \A f \in { x \in FileGetByID(id) : x.bucketID = b } :
              (/\ DownloadFile(u, b, id)
               /\ faults' = faults
               /\ NativeAccess(u, BucketGetByID(b)) = 0
               /\ ~FileExists(f.path))
                  => /\ last' = Err("DownloadFile", StatusNotFound)
                     /\ last'.body = <<>>
                     /\ UNCHANGED <<files, disk, buckets>>
       /\ \A u \in Users, n \in BucketNames, k \in Keys :
            \A bk \in BucketGetByName(n, u) :
              (/\ S3GetObject(u, n, k)
               /\ faults' = faults
               /\ FileGetByName(bk.id, k) # {}
               /\ \A f \in FileGetByName(bk.id, k) : ~FileExists(f.path))
                  => /\ last' = Err("S3GetObject", StatusNotFound)
                     /\ last'.body = <<>>
                     /\ UNCHANGED <<files, disk, buckets>>]_vars

\* C21 witness: every record has lost its file, and a download has just
\* been answered NotFound.
C21_Witness ==
    /\ files # {}
    /\ \A f \in files : ~FileExists(f.path)
    /\ last \in { Err("DownloadFile", StatusNotFound),
                  Err("S3GetObject", StatusNotFound) }

Nested(key) ==
    /\ Len(key) > 1
    /\ \A i \in 1..Len(key) : key[i] \notin {"", ".", ".."}

\* C23: a put of a nested key whose parent directory does not exist yet, in
\* which nothing fails, creates the missing directories and its file and
\* goes on to the copy; and when such a put, alone on its key, is answered
\* 200, the owner's S3 get of exactly that key returns the bytes put and the
\* owner's listing shows the key.
C23_NestedKeyStored ==
    [][\A r \in Slots : \A rq \in {req[r]} :
         /\ (/\ PutCreate(r)
             /\ faults' = faults
             /\ Nested(rq.key)
             /\ Parent(rq.path) \notin dirs)
               => /\ req'[r].pc = "copy"
                  /\ Parent(rq.path) \in dirs'
                  /\ FileExists(rq.path)'
         /\ (PutSucceeds(r) /\ rq.solo /\ Nested(rq.key))
               => \A bucket \in BucketGetByID(rq.bucketID) :
                     /\ \A d \in S3GetObjectResps(bucket.userID, bucket.name,
                                                  rq.key, FALSE)' :
                           d.status = StatusOK /\ d.body = rq.data
                     /\ \E i \in 1..Len(FileList(rq.bucketID, 50, 0)') :
                           FileList(rq.bucketID, 50, 0)'[i].name = rq.key]_vars

\* C24: a put commits its record only after its copy has completed: a
\* record is added or changed only by the commit step of a put that is past
\* its copy; a put gets past its copy only from the copy, in a step in which
\* the copy did not fail and, through a descriptor still linked to the path,
\* wrote all the bytes of the upload into the file.
C24_ContentBeforeRecord ==
    [][/\ (files' \ files # {}) =>
             \E r \in Slots :
                /\ req[r].pc = "commit"
                /\ PutCommit(r)
                /\ \A g \in files' \ files :
                      g.bucketID = req[r].bucketID /\ g.name = req[r].key
       /\ \A r \in Slots : \A rq \in {req[r]} :
            /\ (req'[r].pc = "commit" /\ rq.pc # "commit")
                  => \/ rq.pc = "lookup"
                     \/ (rq.pc = "copy" /\ rq.op = "UploadFile")
            /\ (req'[r].pc = "lookup" /\ rq.pc # "lookup") => rq.pc = "copy"
            /\ (rq.pc = "copy" /\ req'[r].pc \in {"lookup", "commit"})
                  => /\ faults' = faults
                     /\ files' = files
                     /\ rq.fdLive =>
                           /\ FileExists(rq.path)'
                           /\ IsPrefix(rq.data, disk'[rq.path])]_vars

\* C24 witness: a put has just been answered 200, and the record it wrote
\* carries the digest of the bytes at its path.
C24_Witness ==
    /\ last.op \in {"UploadFile", "S3PutObject"}
    /\ last.status = StatusOK
    /\ \E f \in files :
          /\ FileExists(f.path)
          /\ f.updatedAt = now - 1
          /\ f.etag = Md5Hex(disk[f.path])

\* C25: after a crash of the process between a put's copy and its commit,
\* every record whose file is on disk has the size and the digest of the
\* bytes in that file, for a first write and for an overwrite alike; the
\* crash leaves at most a file without record.
C25_CrashLeavesOnlyOrphan ==
    [][Crash =>
         \A f \in files' :
            FileExists(f.path)' =>
               /\ f.size = Len(disk'[f.path])
               /\ f.etag = Md5Hex(disk'[f.path])]_vars

\* C26: a delete of an object attempts the removal of the file before it
\* removes the record, and a failed removal does not abort it: a record
\* disappears only in the row step of a delete, which is entered only from
\* the removal step; the removal step goes on to the row step whether or not
\* os.Remove succeeded, and touches no record; and the row step in which
\* nothing fails removes the record and answers success (200 native, 204 S3).
C26_DeleteBestEffortRemoval ==
    [][/\ \A r \in Slots : \A rq \in {req[r]} :
            /\ (req'[r].pc = "deleteRow" /\ rq.pc # "deleteRow")
                  => rq.pc = "remove" /\ DeleteRemove(r)
            /\ DeleteRemove(r)
                  => /\ req'[r].pc = "deleteRow"
                     /\ files' = files
                     /\ last' = last
                     /\ (faults' = faults => ~FileExists(rq.path)')
            /\ (DeleteRow(r) /\ faults' = faults)
                  => /\ last' = Err(rq.op, IF rq.op = "DeleteFile" THEN StatusOK
                                           ELSE StatusNoContent)
                     /\ FileGetByID(rq.fileID)' = {}
       /\ \A f \in files :
            FileGetByID(f.id)' = {} =>
                \E r \in Slots : /\ req[r].pc = "deleteRow"
                                  /\ req[r].fileID = f.id
                                  /\ DeleteRow(r)]_vars

\* C26 witness: after one put and one DeleteFile, in which os.Remove failed,
\* the delete has been answered 200, the record is gone and the file is
\* still on disk.
C26_Witness ==
    /\ last = Err("DeleteFile", StatusOK)
    /\ ops = 2
    /\ faults = 1
    /\ files = {}
    /\ DOMAIN disk # {}

\* C27: after a put answered 200, first write or overwrite, every record of
\* the put's bucket and key has as userID the id of the user who put.
C27_OwnerIsUploader ==
    [][\A r \in Slots : \A rq \in {req[r]} :
         PutSucceeds(r) =>
             \A g \in FileGetByName(rq.bucketID, rq.key)' :
                g.userID = rq.user]_vars

\* C28: in every reachable state the path of every record is the path
\* resolved from the record's own userID, bucketID and name under the
\* storage base.
C28_PathFromRecord ==
    \A f \in files : f.path = FilePath(f.userID, f.bucketID, f.name)

\* C29: for every query value of limit and of offset, the limit in force for
\* ListFiles and ListBuckets is in 1..100 and the offset is not negative: a
\* missing or malformed limit, or one that is not positive or is above 100,
\* gives 50, any other gives itself; a missing, malformed or negative offset
\* gives 0; and in every state the page either listing returns has no more
\* entries than the limit in force.
C29_NativeLimitBounds ==
    /\ \A rl \in QueryValues :
          /\ LimitOf(rl) \in 1..100
          /\ LimitOf(rl) = IF \/ rl = <<>>
                              \/ ~Atoi(rl).ok
                              \/ Atoi(rl).n <= 0
                              \/ Atoi(rl).n > 100
                           THEN 50 ELSE Atoi(rl).n
    /\ \A ro \in QueryValues :
          /\ OffsetOf(ro) >= 0
          /\ OffsetOf(ro) = IF ro = <<>> \/ ~Atoi(ro).ok \/ Atoi(ro).n < 0
                            THEN 0 ELSE Atoi(ro).n
    /\ \A rl \in QueryLimits, ro \in QueryOffsets, u \in Users :
          /\ Len(ListBucketsResp(u, rl, ro, FALSE).body) <= LimitOf(rl)
          /\ \A b \in buckets :
                Len(ListFilesQueryResp(u, b.id, rl, ro, FALSE).body)
                  <= LimitOf(rl)

\* C29 witness: a bucket holds two files, and ListFiles with limit=1 and
\* offset=1 has just answered with the one entry of its second page.
C29_Witness ==
    \E b \in buckets :
       /\ Cardinality(Holds(b.id)) = 2
       /\ last = ListFilesQueryResp(b.userID, b.id, <<"1">>, <<"1">>, FALSE)
       /\ Len(last.body) = 1

\* The step is one of lookups: the request that takes it, if any, is at its
\* start or at the lookup of S3PutObject.
LookupStep ==
    \A r \in Slots : req'[r] = req[r] \/ req[r].pc \in {"idle", "lookup"}

\* C30: callers keep an absent record and a failed lookup apart.  A step of
\* lookups in which the storage fails answers 500 and lets no request go
\* on; a lookup that finds no record, with nothing failing, leads to
\* NotFound in a download and to an insert in a put.
C30_AbsentIsNotFailure ==
    [][/\ (LookupStep /\ faults' = faults + 1) =>
             /\ last'.status = StatusInternalServerError
             /\ \A r \in Slots : req'[r] = req[r] \/ req'[r].pc = "idle"
       /\ \A r \in Slots : \A rq \in {req[r]} :
            (/\ S3PutObjectLookup(r)
             /\ faults' = faults
             /\ FileGetByName(rq.bucketID, rq.key) = {})
                => req'[r].pc = "commit" /\ req'[r].existingID = 0
       /\ \A u \in Users, n \in BucketNames, k \in Keys :
            \A bk \in BucketGetByName(n, u) :
              (/\ S3GetObject(u, n, k)
               /\ faults' = faults
               /\ FileGetByName(bk.id, k) = {})
                  => last' = Err("S3GetObject", StatusNotFound)]_vars

\* C31: what an UploadFile answered 200 returns (id, size, etag, created_at,
\* updated_at) is what GetFile of the returned id, asked by the bucket's
\* owner in the state the put leaves, returns.
C31_PutReturnsRecord ==
    [][\A r \in Slots : \A rq \in {req[r]} :
         \A bucket \in BucketGetByID(rq.bucketID) :
           (PutSucceeds(r) /\ rq.op = "UploadFile") =>
               \A id \in {last'.id} :
               \A got \in {GetFileResp(bucket.userID, rq.bucketID, id,
                                       FALSE)'} :
                  /\ got.status = StatusOK
                  /\ got.id = last'.id
                  /\ got.size = last'.size
                  /\ got.etag = last'.etag
                  /\ got.body = UploadFileTimes]_vars

\* C32: the total of a native listing answered 200 to the owner is the
\* number of records the listing ranges over: those of the bucket whose key
\* starts with the prefix (or, read by the listing's own query, those its
\* pattern matches), which is all of them when the prefix is empty.
C32_TotalOfListing ==
    [][\A b \in buckets, prefix \in ListPrefixes, l \in ListBounds,
         fold \in BOOLEAN :
         Answered(ListFilesPageResp(b.userID, b.id, prefix, l, FALSE, fold))
           => last'.size \in
                { Cardinality({ f \in Holds(b.id) :
                      IsPrefix(Spell(prefix), NameChars(f.name)) }),
                  Cardinality({ f \in Holds(b.id) :
                      Like(NameChars(f.name), Spell(prefix) \o <<"%">>,
                           fold) }) }]_vars


\* C33: no step of a put or delete on one (bucketID, key) changes what a
\* get of a record with another (bucketID, key) sends: distinct keys of a
\* bucket, those that differ by a "." segment included, share no file.
C33_KeysShareNoFile ==
    [][\A f \in files :
         (\A r \in Slots :
            Idle(r) \/ req[r].bucketID # f.bucketID \/ req[r].key # f.name)
         => Served("get", f, f.etag)' = Served("get", f, f.etag)]_vars

\* The step ends the put in slot r with an error response.
PutFails(r) ==
    /\ req[r].pc \in {"create", "copy", "lookup", "commit"}
    /\ req'[r].pc = "idle"
    /\ last'.op = req[r].op
    /\ last'.status # StatusOK

\* C34: when a put to a key that holds an object fails, the object is as it
\* was: its record is unchanged, and a get sends bytes of the record's size
\* whose digest is the record's ETag.
C34_FailedPutKeepsObject ==
    [][\A r \in Slots : \A rq \in {req[r]} :
         PutFails(r) =>
             \A f \in FileGetByName(rq.bucketID, rq.key) :
                /\ f \in files'
                /\ \A got \in {Served("get", f, f.etag)'} :
                      /\ got.status = StatusOK
                      /\ Len(got.body) = f.size
                      /\ Md5Hex(got.body) = f.etag]_vars

\* C35: in a state that no failure of the disk or the database has led to
\* and in which no request is under way, every file on disk is the
\* storagePath of exactly one file record.
C35_NoUnreferencedFile ==
    (faults = 0 /\ \A r \in Slots : Idle(r)) =>
        \A p \in DOMAIN disk : Cardinality({ f \in files : f.path = p }) = 1

\* C36: GetFile, DownloadFile and DeleteFile of a file id addressed through
\* a bucket other than the one of the file's record never succeed, whoever
\* asks; a user with access to that bucket is answered NotFound; and the
\* request changes neither records nor disk and begins no delete.
C36_FileOnlyThroughItsBucket ==
    [][\A u \in Users, b \in RecordBuckets, id \in FileIDs :
         \A f \in FileGetByID(id) :
           (f.bucketID # b /\ faults' = faults) =>
             /\ GetFile(u, b, id) =>
                  /\ last'.status # StatusOK
                  /\ NativeAccess(u, BucketGetByID(b)) = 0
                       => last' = Err("GetFile", StatusNotFound)
             /\ DownloadFile(u, b, id) =>
                  /\ last'.status # StatusOK
                  /\ NativeAccess(u, BucketGetByID(b)) = 0
                       => last' = Err("DownloadFile", StatusNotFound)
             /\ DeleteFileStart(1, u, b, id) =>
                  /\ req' = req
                  /\ files' = files
                  /\ disk' = disk
                  /\ NativeOwnerAccess(u, BucketGetByID(b)) = 0
                       => last' = Err("DeleteFile", StatusNotFound)]_vars

C36_Witness ==
    /\ last = Err("DeleteFile", StatusNotFound)
    /\ \E b \in buckets, f \in files :
         /\ f.bucketID # b.id
         /\ BucketGetByID(f.bucketID) # {}
         /\ FileExists(f.path)

\* The put in slot r replaces the record it found, and no failure occurs.
Overwrites(r) ==
    /\ PutSucceeds(r)
    /\ req[r].existingID # 0
    /\ faults' = faults

\* C37: the Last-Modified of an S3 get answered 200 and the LastModified of
\* every entry of an S3 listing are the creation time of the record served
\* or listed, and an
\* overwrite of the key leaves them as they were while it sets the record's
\* updatedAt to a later time and its size and ETag to those of the new bytes.
C37_LastModifiedIsCreation ==
    [][/\ \A b \in buckets, k \in RaceKeys :
            \A d \in S3GetObjectHeadResps(b.userID, b.name, k, FALSE) :
               (last'.op = "S3GetObject" /\ Answered(d)
                  /\ d.status = StatusOK)
               => /\ FileGetByID(d.id) # {}
                  /\ \A f \in FileGetByID(d.id) :
                        d.body = <<HTTPTime(f.createdAt)>>
       /\ \A b \in buckets :
            \A d \in S3ListObjectsContentsResps(b.userID, b.name, FALSE) :
               (last'.op = "S3ListObjects" /\ Answered(d)
                  /\ d.status = StatusOK)
               => \A rows \in {FileList(b.id, 1000, 0)} :
                     /\ Len(d.body) = Len(rows)
                     /\ \A i \in 1..Len(rows) :
                           /\ d.body[i].name = rows[i].name
                           /\ d.body[i].lastModified
                                = RFC3339(rows[i].createdAt)
       /\ \A r \in Slots : \A rq \in {req[r]} :
            Overwrites(r) =>
               \A f \in FileGetByID(rq.existingID) :
               \A g \in FileGetByID(rq.existingID)' :
                  /\ S3LastModified(g) = S3LastModified(f)
                  /\ g.updatedAt > f.updatedAt
                  /\ g.size = Len(rq.data)
                  /\ g.etag = Md5Hex(rq.data)]_vars

C37_Witness ==
    /\ last.op = "S3GetObject"
    /\ last.status = StatusOK
    /\ \E f \in files :
         /\ f.updatedAt > f.createdAt
         /\ last.body = <<HTTPTime(f.createdAt)>>
         /\ last.size = f.size

\* The response is 401 to handler op and nothing else changes: no record,
\* no file, no directory, no request begun, and no statement of the database
\* or call of the file system that could have failed.
OnlyUnauthorized(op) ==
    /\ last' = Err(op, StatusUnauthorized)
    /\ UNCHANGED <<buckets, files, disk, dirs, uniqueKey, nextBucket, nextFile,
                   now, req, ops, faults>>

\* C38: a request without an authenticated identity to any bucket or object
\* handler of either surface is answered 401 in the handler's first step,
\* and that step reads and writes neither the metadata store nor the disk.
C38_UnauthorizedFirst ==
    [][\A n \in BucketNames, b \in BucketIDs, id \in FileIDs, k \in RaceKeys,
         up \in LifeUploads, p \in BOOLEAN :
         /\ CreateBucketAs(1, NoUser, n, p) => OnlyUnauthorized("CreateBucket")
         /\ ListBucketsAs(NoUser) => OnlyUnauthorized("ListBuckets")
         /\ GetBucketAs(NoUser, b) => OnlyUnauthorized("GetBucket")
         /\ DeleteBucketAs(1, NoUser, b) => OnlyUnauthorized("DeleteBucket")
         /\ UploadFileAs(1, NoUser, b, k, up) => OnlyUnauthorized("UploadFile")
         /\ ListFilesAs(NoUser, b) => OnlyUnauthorized("ListFiles")
         /\ GetFileAs(NoUser, b, id) => OnlyUnauthorized("GetFile")
         /\ DownloadFileAs(NoUser, b, id) => OnlyUnauthorized("DownloadFile")
         /\ DeleteFileAs(1, NoUser, b, id) => OnlyUnauthorized("DeleteFile")
         /\ S3ListBucketsAs(NoUser) => OnlyUnauthorized("S3ListBuckets")
         /\ S3ListObjectsAs(NoUser, n) => OnlyUnauthorized("S3ListObjects")
         /\ S3PutObjectAs(1, NoUser, n, k, up) => OnlyUnauthorized("S3PutObject")
         /\ S3GetObjectAs(NoUser, n, k) => OnlyUnauthorized("S3GetObject")
         /\ S3DeleteObjectAs(1, NoUser, n, k)
              => OnlyUnauthorized("S3DeleteObject")]_vars

C38_Witness ==
    /\ last = Err("DeleteFile", StatusUnauthorized)
    /\ \E f \in files : FileExists(f.path)
============================================================================
